---- MODULE Spec2Model ----
(***************************************************************************)
(* A model of floof's operation runtime.                                   *)
(*                                                                         *)
(*   ro   one RunningOperation (src/op/mod.rs) with the worker thread that *)
(*        RunningOperation::start spawns and the child process of a        *)
(*        Command worker (src/op/command.rs);                              *)
(*   srv  the dev server behind an Http worker (src/op/http.rs,            *)
(*        src/http.rs): the server thread and its two tokio tasks;         *)
(*   cl   a caller that holds the RunningOperation and uses its API        *)
(*        (start, outcome().recv(), cancel);                               *)
(*   w    a Watch operation (src/op/watch.rs): the executor thread, the    *)
(*        watcher thread, the event channel, the caller of cancel.         *)
(*                                                                         *)
(* SpecOp lets the caller cl drive one operation; SpecWatch lets the       *)
(* executor of a Watch drive the operations of its run list. The other     *)
(* specifications keep their state in cl and srv: SpecConfig (loading and  *)
(* validation), SpecConc (Concurrently), SpecCtx and SpecReload (the frame *)
(* stack of context.rs and the operations that use it), SpecHttp (an Http  *)
(* operation with the reload path of its dev server), SpecInject (bodies   *)
(* passing through inject_into), SpecCommand (commands read from the       *)
(* configuration), SpecTask (the default task and the tasks it runs).      *)
(*                                                                         *)
(* Assumed of the platform: try_wait and kill on a child that has not been *)
(* reaped succeed, and a value sent on a channel is seen by the next       *)
(* receive.                                                                *)
(***************************************************************************)
EXTENDS Integers, Sequences, FiniteSets, TLC

VARIABLES ro, srv, cl, w

vars == <<ro, srv, cl, w>>

-----------------------------------------------------------------------------
(* Bounds of the model.                                                    *)

\* calls of outcome().recv() / cancel() the caller makes on one operation
MaxCalls == 3
\* clock ticks of a Watch scenario
MaxTime == 3
\* filesystem events of a Watch scenario
MaxEvents == 2
\* largest configured debounce duration, in ticks
MaxDebounce == 2

-----------------------------------------------------------------------------
(* Values.                                                                 *)

\* enum Outcome
Outcome == {"Success", "Failure", "Cancelled"}

\* Outcome::is_success
is_success(o) == o = "Success"

\* what travels on an outcome channel: Ok(outcome) or Err(error)
Err == "Err"

\* what recv() returns on an empty channel whose sender is gone
RecvError == "RecvError"

\* ExitStatus::success(): the outcome of a child that exited
ExitOutcome(p) == IF p = "exit0" THEN "Success" ELSE "Failure"

-----------------------------------------------------------------------------
(* RunningOperation and its worker thread.                                 *)

\* no operation has been started
NoOperation ==
  [kind |-> "none", wpc |-> "none", proc |-> "none", some |-> FALSE,
   cancelTx |-> FALSE, cancelRx |-> FALSE, pending |-> FALSE,
   out |-> <<>>, outTx |-> FALSE, emitted |-> 0, polled |-> FALSE]

\* RunningOperation::start: a rendezvous cancel channel, an outcome channel of
\* capacity 1, and a worker thread that owns cancel_rx and outcome_tx
RunningOperation_start(kind, proc) ==
  [kind |-> kind, wpc |-> "run", proc |-> proc, some |-> TRUE,
   cancelTx |-> TRUE, cancelRx |-> TRUE, pending |-> FALSE,
   out |-> <<>>, outTx |-> TRUE, emitted |-> 0, polled |-> FALSE]

\* RunningOperation::finished: the outcome is put on the channel at once, the
\* sender is dropped and there is no cancel channel
RunningOperation_finished(outcome, proc) ==
  [kind |-> "finished", wpc |-> "none", proc |-> proc, some |-> FALSE,
   cancelTx |-> FALSE, cancelRx |-> FALSE, pending |-> FALSE,
   out |-> <<outcome>>, outTx |-> FALSE, emitted |-> 1, polled |-> FALSE]

\* whether the worker keeps cancel_rx once its closure has returned (a bug
\* that would make a later cancel.send(()) wait for ever)
RxKeptAfterReturn == TRUE

\* cancel_rx is moved into the closure `op`, so it is dropped when op returns,
\* before the result is sent
RxAfterReturn == FALSE

\* the worker thread sends the closure's result exactly once, whatever it is
SendsOf(result) == 1

\* the worker's closure returned `result`: the thread drops cancel_rx and
\* sends the result on the outcome channel
WorkerReturn(r, result) ==
  [r EXCEPT !.wpc = "sent",
            !.cancelRx = RxAfterReturn,
            !.pending = IF RxAfterReturn THEN @ ELSE FALSE,
            !.out = IF SendsOf(result) > 0 THEN Append(@, result) ELSE @,
            !.emitted = @ + SendsOf(result)]

\* the worker's closure panicked: the thread unwinds, dropping cancel_rx and
\* outcome_tx without sending anything
WorkerPanic(r) ==
  [r EXCEPT !.wpc = "panicked", !.cancelRx = FALSE, !.pending = FALSE,
            !.outTx = FALSE]

\* the worker thread ends after the send: outcome_tx is dropped
WorkerExit ==
  /\ ro.wpc = "sent"
  /\ ro' = [ro EXCEPT !.wpc = "exited", !.outTx = FALSE]
  /\ UNCHANGED <<srv, cl, w>>

\* whether a blocking recv() on the outcome channel can return now
CanRecv(r) == r.out # <<>> \/ ~r.outTx

\* the value recv() returns
RecvValue(r) == IF r.out # <<>> THEN Head(r.out) ELSE RecvError

\* whether cancel.send(()) on the rendezvous channel can return now: the
\* worker took the message, or the receiver is gone
CanFinishSend(r) == ~r.pending \/ ~r.cancelRx

-----------------------------------------------------------------------------
(* Command: the child process and the polling worker.                      *)

\* a worker loop that looks at cancel_request before it looks at the child
CommandWakeCancelFirst(r) ==
  IF r.pending
    THEN WorkerReturn([r EXCEPT !.pending = FALSE,
                                !.proc = IF @ = "running" THEN "killed" ELSE @],
                      "Cancelled")
  ELSE IF r.proc \in {"exit0", "exit1"} THEN WorkerReturn(r, ExitOutcome(r.proc))
  ELSE IF ~r.cancelTx THEN WorkerReturn(r, Err)
  ELSE [r EXCEPT !.polled = TRUE]

\* one iteration of the worker's loop after the sleep: try_wait first (a
\* child found exited is reaped by it), then cancel_request.try_recv(); on a
\* request child.kill() and return Cancelled: "killed" is a child that has
\* been sent the signal and has not been waited for
CommandWake(r) ==
  IF r.proc \in {"exit0", "exit1"} THEN WorkerReturn(r, ExitOutcome(r.proc))
  ELSE IF r.pending
    THEN WorkerReturn([r EXCEPT !.pending = FALSE, !.proc = "killed"], "Cancelled")
  ELSE IF ~r.cancelTx THEN WorkerReturn(r, Err)
  ELSE [r EXCEPT !.polled = TRUE]

\* the Command worker wakes up
CommandWorker ==
  /\ ro.kind = "command"
  /\ ro.wpc = "run"
  /\ ro' = CommandWake(ro)
  /\ ro' # ro
  /\ UNCHANGED <<srv, cl, w>>

\* the child process exits by itself with status 0 or another status
ProcExit ==
  /\ ro.proc = "running"
  /\ \E p \in {"exit0", "exit1"} : ro' = [ro EXCEPT !.proc = p]
  /\ UNCHANGED <<srv, cl, w>>

-----------------------------------------------------------------------------
(* Http: the worker of op/http.rs and the server of http.rs.               *)

\* no server has been created. thread, http, ws: the server thread and its
\* two tokio tasks; done: the channel server_done; rq: the reload requests on
\* the Reloader's channel; fq: those on the Server's reload channel; rt: the
\* reload task of run_ws_server; open: what its last readiness wait found;
\* sockets: the session list; hs: the sessions in their handshake; events:
\* the events given to the callback. The rest is history: nsig requests sent,
\* sid sessions accepted, pushed and dropped sessions, the list as the last
\* clear left it, served and skipped requests, blind clears
NoServer ==
  [thread |-> "none", http |-> "none", ws |-> "none", done |-> <<>>,
   rq |-> 0, fq |-> 0, rt |-> "none", open |-> FALSE, sockets |-> <<>>,
   hs |-> {}, events |-> {}, nsig |-> 0, sid |-> 0, pushed |-> {},
   dropped |-> {}, cleared |-> <<>>, served |-> 0, skipped |-> 0, blind |-> 0]

\* the worker creates the Server and spawns the server thread, which runs
\* `run`: run_http_server and run_ws_server as two tokio tasks
HttpWorkerInit ==
  /\ ro.kind = "http"
  /\ ro.wpc = "run"
  /\ ro' = [ro EXCEPT !.wpc = "select"]
  /\ srv' = [srv EXCEPT !.thread = "running", !.http = "binding", !.ws = "binding",
                        !.rt = "idle"]
  /\ UNCHANGED <<cl, w>>

\* run_http_server: hyper::Server::bind panics when the address cannot be
\* bound; otherwise the main server serves until it is told to stop
SrvBindMain ==
  /\ srv.http = "binding"
  /\ \E ok \in BOOLEAN : srv' = [srv EXCEPT !.http = IF ok THEN "serving" ELSE "panicked"]
  /\ UNCHANGED <<ro, cl, w>>

\* run_ws_server: TcpListener::bind(..).await? returns the error; otherwise
\* the task loops on accept()
SrvBindControl ==
  /\ srv.ws = "binding"
  /\ \E ok \in BOOLEAN : srv' = [srv EXCEPT !.ws = IF ok THEN "accepting" ELSE "err"]
  /\ UNCHANGED <<ro, cl, w>>

\* run_ws_server leaves its accept loop only when accept() fails
SrvAcceptError ==
  /\ srv.ws = "accepting"
  /\ srv' = [srv EXCEPT !.ws = "ended"]
  /\ UNCHANGED <<ro, cl, w>>

\* whether run_ws_server has returned
WsTaskDone(s) == s.ws \in {"err", "ended"}

\* `run`: try_join! returns when both tasks have returned
RunDone(s) == s.http = "stopped" /\ WsTaskDone(s)

\* res0.and(res1), mapped to Outcome::Cancelled by the server thread
RunResult(s) == IF s.ws = "err" THEN Err ELSE "Cancelled"

\* the server thread: try_join! fails at once when a task panicked and the
\* expect() panics the thread (server_done_tx is dropped); when `run` returns
\* the thread sends its result on server_done
SrvJoin ==
  /\ srv.thread = "running"
  /\ \/ /\ srv.http = "panicked"
        /\ srv' = [srv EXCEPT !.thread = "panicked"]
     \/ /\ RunDone(srv)
        /\ srv' = [srv EXCEPT !.thread = "sent", !.done = <<RunResult(srv)>>]
  /\ UNCHANGED <<ro, cl, w>>

\* whether server_done_rx.recv() can return now
CanRecvDone(s) == s.done # <<>> \/ s.thread = "panicked"

\* select!, arm recv(server_done_rx): whatever arrives, the worker panics
\* ("bug: HTTP server should never stop on its own...")
HttpSelectDone ==
  /\ ro.kind = "http"
  /\ ro.wpc = "select"
  /\ CanRecvDone(srv)
  /\ ro' = WorkerPanic(ro)
  /\ UNCHANGED <<srv, cl, w>>

\* select!, arm recv(cancel_request): a disconnected cancel channel panics
\* (BUG_CANCEL_DISCONNECTED); a cancel request goes on to server.stop()
HttpSelectCancel ==
  /\ ro.kind = "http"
  /\ ro.wpc = "select"
  /\ ro.pending \/ ~ro.cancelTx
  /\ ro' = IF ro.pending
             THEN [ro EXCEPT !.pending = FALSE, !.wpc = "stopping", !.polled = TRUE]
             ELSE WorkerPanic(ro)
  /\ UNCHANGED <<srv, cl, w>>

\* server.stop(): a rendezvous send to the main server's shutdown future; it
\* panics when that task is gone
HttpStop ==
  /\ ro.kind = "http"
  /\ ro.wpc = "stopping"
  /\ \/ /\ srv.http = "serving"
        /\ srv' = [srv EXCEPT !.http = "stopped"]
        /\ ro' = [ro EXCEPT !.wpc = "wait_done"]
     \/ /\ srv.http = "panicked"
        /\ ro' = WorkerPanic(ro)
        /\ srv' = srv
  /\ UNCHANGED <<cl, w>>

\* return server_done_rx.recv().expect(..): the closure returns what the
\* server thread sent
HttpWaitDone ==
  /\ ro.kind = "http"
  /\ ro.wpc = "wait_done"
  /\ CanRecvDone(srv)
  /\ ro' = IF srv.done # <<>> THEN WorkerReturn(ro, Head(srv.done)) ELSE WorkerPanic(ro)
  /\ UNCHANGED <<srv, cl, w>>

\* the steps of the threads behind a RunningOperation
Threads ==
  \/ CommandWorker
  \/ WorkerExit
  \/ HttpWorkerInit
  \/ HttpSelectDone
  \/ HttpSelectCancel
  \/ HttpStop
  \/ HttpWaitDone
  \/ SrvBindMain
  \/ SrvBindControl
  \/ SrvJoin

\* what the environment does to them
Faults ==
  \/ ProcExit
  \/ SrvAcceptError

-----------------------------------------------------------------------------
(* A caller of the RunningOperation API.                                   *)

\* the operations the caller starts, by keyword
OpKinds == {"command", "http", "reload", "run-task"}

\* the task a run-task names: two commands
TargetTask == <<"command", "command">>

\* the caller before start
NoCaller ==
  [pc |-> "none", op |-> "none", calls |-> 0, cancels |-> 0, got |-> "none",
   cancelGot |-> "none", cancelRes |-> "none", callKind |-> "none",
   emAtCall |-> 0, beforePoll |-> FALSE, rt |-> 0, err |-> "none"]

\* what command.spawn() returns: the child, or an io::Error of some kind
SpawnResults == {"Ok", "NotFound", "PermissionDenied"}

\* the error Command::start returns for a failed spawn: the io::Error with
\* the context "failed to spawn ..", which carries the hint "you probably
\* don't have the command .. installed" when the kind is NotFound
SpawnError(kind) == [cause |-> kind, hint |-> kind = "NotFound"]

\* a Command::start that hands a worker to the caller whatever spawn returned
Command_start_unchecked(spawned) == RunningOperation_start("command", "running")

\* Command::start: spawn the child; on failure return the error, else hand the
\* child to a worker made by RunningOperation::new
Command_start(spawned) ==
  IF spawned THEN RunningOperation_start("command", "running") ELSE NoOperation

\* Reload::start with a Reloader in scope: send the signal, return
\* RunningOperation::finished(Success)
Reload_start == RunningOperation_finished("Success", "none")

\* Operation::start for command, http and reload: none of them waits
ClStart ==
  /\ cl.pc = "init"
  /\ \/ /\ cl.op = "command"
        /\ \E res \in SpawnResults :
             /\ ro' = Command_start(res = "Ok")
             /\ cl' = [cl EXCEPT !.pc = IF res = "Ok" THEN "held" ELSE "start_err",
                                 !.err = IF res = "Ok" THEN @ ELSE SpawnError(res)]
     \/ /\ cl.op = "http"
        /\ ro' = RunningOperation_start("http", "none")
        /\ cl' = [cl EXCEPT !.pc = "held"]
     \/ /\ cl.op = "reload"
        /\ \E inScope \in BOOLEAN :
             /\ ro' = IF inScope THEN Reload_start ELSE NoOperation
             /\ cl' = [cl EXCEPT !.pc = IF inScope THEN "held" ELSE "start_err"]
  /\ UNCHANGED <<srv, w>>

\* RunTask::start, entry: `let outcome = task.run(ctx)?` runs the target task
\* inside start
RunTask_start ==
  /\ cl.pc = "init"
  /\ cl.op = "run-task"
  /\ cl' = [cl EXCEPT !.pc = "rt_start", !.rt = 1]
  /\ UNCHANGED <<ro, srv, w>>

\* Task::run, next operation: Operation::run starts it ...
Task_run_start ==
  /\ cl.pc = "rt_start"
  /\ \E spawned \in BOOLEAN :
       /\ ro' = Command_start(spawned)
       /\ cl' = [cl EXCEPT !.pc = IF spawned THEN "rt_wait" ELSE "start_err"]
  /\ UNCHANGED <<srv, w>>

\* a Task::run that goes on to the next operation whatever the outcome
TaskContinuesAlways(v, i, len) == i < len

\* whether Task::run goes on to the next operation after outcome v of
\* operation i
TaskContinues(v, i, len) == is_success(v) /\ i < len

\* an Operation::run that returns as soon as the operation is started
Operation_run_returns_at_start(r) == TRUE

\* Operation::run returns when outcome().recv() returns
Operation_run_returns(r) == CanRecv(r)

\* ... and waits for its outcome; the first outcome that is not Success, or
\* the last one, is the task's outcome, and RunTask::start returns
\* Finished(outcome)
Task_run_recv ==
  /\ cl.pc = "rt_wait"
  /\ Operation_run_returns(ro)
  /\ LET v == RecvValue(ro) IN
       IF v \notin Outcome
         THEN /\ cl' = [cl EXCEPT !.pc = "start_err"]
              /\ ro' = [ro EXCEPT !.out = <<>>, !.cancelTx = FALSE]
         ELSE IF TaskContinues(v, cl.rt, Len(TargetTask))
           THEN /\ cl' = [cl EXCEPT !.pc = "rt_start", !.rt = @ + 1]
                /\ ro' = [ro EXCEPT !.out = <<>>, !.cancelTx = FALSE]
           ELSE /\ cl' = [cl EXCEPT !.pc = "held"]
                /\ ro' = RunningOperation_finished(v, ro.proc)
  /\ UNCHANGED <<srv, w>>

\* outcome().recv(), as Operation::run does after start
ClRecv ==
  /\ cl.pc = "held"
  /\ cl.calls < MaxCalls
  /\ CanRecv(ro)
  /\ cl' = [cl EXCEPT !.got = RecvValue(ro), !.calls = @ + 1]
  /\ ro' = [ro EXCEPT !.out = <<>>]
  /\ UNCHANGED <<srv, w>>

\* cancel ignores the results of cancel.send and outcome.recv and returns
\* Ok(())
CancelResult(sent, received) == "Ok"

\* RunningOperation::cancel, entry: with cancel = None it returns Ok(()) at
\* once; else it starts cancel.send(()) on the rendezvous channel
ClCancel ==
  /\ cl.pc = "held"
  /\ cl.calls < MaxCalls
  /\ LET kindOfCall == IF cl.cancels > 0 THEN "repeat"
                       ELSE IF ro.wpc \in {"sent", "exited"} \/ ro.kind = "finished"
                         THEN "afterDone"
                       ELSE "first" IN
       IF ~ro.some
         THEN /\ cl' = [cl EXCEPT !.calls = @ + 1, !.cancels = @ + 1,
                                  !.callKind = kindOfCall, !.emAtCall = ro.emitted,
                                  !.cancelRes = "Ok"]
              /\ ro' = ro
         ELSE /\ cl' = [cl EXCEPT !.pc = "cancel_send", !.callKind = kindOfCall,
                                  !.emAtCall = ro.emitted,
                                  !.beforePoll = IF cl.cancels = 0
                                                   THEN ro.wpc = "run" /\ ~ro.polled
                                                   ELSE @]
              /\ ro' = [ro EXCEPT !.pending = ro.cancelRx]
  /\ UNCHANGED <<srv, w>>

\* cancel.send(()) returns: the worker received the request, or the channel
\* is disconnected
ClCancelSent ==
  /\ cl.pc = "cancel_send"
  /\ CanFinishSend(ro)
  /\ cl' = [cl EXCEPT !.pc = "cancel_recv"]
  /\ ro' = [ro EXCEPT !.pending = FALSE]
  /\ UNCHANGED <<srv, w>>

\* self.outcome.recv() inside cancel returns, and cancel returns
ClCancelRecv ==
  /\ cl.pc = "cancel_recv"
  /\ CanRecv(ro)
  /\ cl' = [cl EXCEPT !.pc = "held", !.calls = @ + 1, !.cancels = @ + 1,
                      !.cancelGot = RecvValue(ro),
                      !.cancelRes = CancelResult(TRUE, RecvValue(ro))]
  /\ ro' = [ro EXCEPT !.out = <<>>]
  /\ UNCHANGED <<srv, w>>

\* the caller's steps
Caller ==
  \/ ClStart
  \/ RunTask_start
  \/ Task_run_start
  \/ Task_run_recv
  \/ ClRecv
  \/ ClCancel
  \/ ClCancelSent
  \/ ClCancelRecv

\* the Watch of SpecWatch is absent from SpecOp
NoWatch == [pc |-> "none"]

InitOp ==
  /\ ro = NoOperation
  /\ srv = NoServer
  /\ \E k \in OpKinds : cl = [NoCaller EXCEPT !.pc = "init", !.op = k]
  /\ w = NoWatch

NextOp == Caller \/ Threads \/ Faults

\* one operation driven through the RunningOperation API
SpecOp == InitOp /\ [][NextOp]_vars

-----------------------------------------------------------------------------
(* Claims about RunningOperation, checked under SpecOp.                    *)

\* C1: every RunningOperation puts exactly one value, an outcome or an
\* error, on its outcome channel: never more than one, and one by the time
\* its worker thread has ended, however the worker's body ended.
C1_ExactlyOneOutcome ==
  /\ ro.emitted <= 1
  /\ (ro.kind = "finished" => ro.emitted = 1)
  /\ (ro.wpc \in {"exited", "panicked"} => ro.emitted = 1)

\* C2: for any operation, cancel followed by awaiting the outcome
\* terminates (while the caller waits inside cancel, some thread of the
\* program can still take a step), and the value obtained is an outcome:
\* Cancelled, or the one the worker emitted.
C2_CancelTotal ==
  /\ (cl.pc \in {"cancel_send", "cancel_recv"} => ENABLED (Caller \/ Threads))
  /\ (cl.callKind = "first" /\ cl.cancelGot # "none" => cl.cancelGot \in Outcome)

\* C3: a second cancel, and a cancel after the worker has completed
\* normally, never wait for ever (the send finds the channel disconnected,
\* the recv finds a value or a sender that is gone or about to go), put no
\* further value on the outcome channel and return Ok(()).
C3_CancelIdempotent ==
  /\ ro.emitted <= 1
  /\ cl.cancelRes \in {"none", "Ok"}
  /\ (cl.callKind \in {"repeat", "afterDone"} =>
        /\ ro.emitted = cl.emAtCall
        /\ (cl.pc = "cancel_send" => CanFinishSend(ro))
        /\ (cl.pc = "cancel_recv" => CanRecv(ro) \/ ro.wpc = "sent"))

\* C3, its case: a second cancel has returned on an operation whose first
\* cancel arrived before the worker had polled its cancel channel.
C3_Witness ==
  /\ cl.pc = "held"
  /\ cl.cancels >= 2
  /\ cl.callKind = "repeat"
  /\ cl.beforePoll
  /\ ro.emitted = 1

\* C4: start never waits for the operation's work: no caller is inside
\* start, waiting for an outcome, while a child process started by the
\* operation is still running.
C4_StartDoesNotWait == ~(cl.pc = "rt_wait" /\ ro.proc = "running")

-----------------------------------------------------------------------------
(* Watch: the watcher thread, the caller of cancel, the clock.             *)

\* the run lists a Watch is configured with, by keyword; on-change wraps a
\* command, run-task names TargetTask
Pipelines ==
  {<<"command", "command">>, <<"on-change", "command">>, <<"run-task">>}

\* no event has been stamped
NoEvent == -1

\* the last element of a non-empty queue
Last(q) == q[Len(q)]

\* Watch::start has returned: the watcher and the two threads exist, the
\* executor is in State::Initial.  q is the event channel, stamped the Event
\* the watcher thread has built and not yet sent, wt the watcher thread,
\* watcher the Option in Running, cn and res the caller of Running::cancel.
\* The other fields record what has happened: lastEv, bursts (event arrivals),
\* startups, reRuns (calls of run_operations), race (a debounce check found
\* the channel empty while the watcher thread held an event), early (that
\* event was of the burst being debounced and less than a debounce duration
\* old), taken, swp, sawFail (within the current run of the pipeline), oc
\* (what on-change did).
Watch_start(run, debounce) ==
  [pc |-> "Initial", run |-> run, debounce |-> debounce, idx |-> 0,
   tbc |-> "unset", trigger |-> NoEvent, rt |-> 0,
   q |-> <<>>, stamped |-> NoEvent, wt |-> "run", watcher |-> TRUE,
   cn |-> "idle", res |-> "none", now |-> 0, nev |-> 0,
   lastEv |-> NoEvent, bursts |-> 0, startups |-> 0, reRuns |-> 0,
   race |-> FALSE, early |-> FALSE, taken |-> FALSE, swp |-> 0,
   sawFail |-> FALSE, oc |-> {}]

\* the executor thread has returned, dropping event_rx
ExecutorGone(wr) == wr.pc \in {"Done", "Failed"}

\* the watcher thread has ended, dropping event_tx
Disconnected(wr) == wr.wt # "run"

\* time passes
Tick ==
  /\ w.pc # "none"
  /\ w.now < MaxTime
  /\ w' = [w EXCEPT !.now = @ + 1]
  /\ UNCHANGED <<ro, srv, cl>>

\* the watcher thread takes a raw event and stamps it with Instant::now()
WatcherStamp ==
  /\ w.pc # "none"
  /\ w.wt = "run"
  /\ w.watcher
  /\ w.stamped = NoEvent
  /\ w.nev < MaxEvents
  /\ w' = [w EXCEPT !.stamped = w.now, !.nev = @ + 1, !.lastEv = w.now,
                    !.bursts = IF w.lastEv = NoEvent \/ w.now - w.lastEv >= w.debounce
                                 THEN @ + 1 ELSE @]
  /\ UNCHANGED <<ro, srv, cl>>

\* event_tx.send(event).expect(..): the event joins the queue, or the thread
\* panics because the executor has returned
WatcherSend ==
  /\ w.pc # "none"
  /\ w.wt = "run"
  /\ w.stamped # NoEvent
  /\ w' = IF ExecutorGone(w)
            THEN [w EXCEPT !.wt = "panicked", !.stamped = NoEvent]
            ELSE [w EXCEPT !.q = Append(@, w.stamped), !.stamped = NoEvent]
  /\ UNCHANGED <<ro, srv, cl>>

\* the loop over raw_event_rx ends once the watcher has been dropped
WatcherEnd ==
  /\ w.pc # "none"
  /\ w.wt = "run"
  /\ ~w.watcher
  /\ w.stamped = NoEvent
  /\ w' = [w EXCEPT !.wt = "ended"]
  /\ UNCHANGED <<ro, srv, cl>>

\* Running::cancel, first statement: self.watcher.take() drops the watcher
Running_cancel ==
  /\ w.pc # "none"
  /\ w.cn = "idle"
  /\ w' = [w EXCEPT !.watcher = FALSE, !.cn = "joining"]
  /\ UNCHANGED <<ro, srv, cl>>

\* Running::cancel, second statement: join the executor and return its result
Running_cancel_join ==
  /\ w.cn = "joining"
  /\ ExecutorGone(w)
  /\ w' = [w EXCEPT !.cn = "joined", !.res = IF w.pc = "Done" THEN "Ok" ELSE Err]
  /\ UNCHANGED <<ro, srv, cl>>

-----------------------------------------------------------------------------
(* Watch: the executor thread.                                             *)

\* a run_operations that tells every run it was triggered by a change
TriggeredAlways(is_on_change) == TRUE

\* TriggeredByChange(is_on_change), the variable run_operations inserts
TriggeredByChange(is_on_change) == is_on_change

\* run_operations, entry: publish TriggeredByChange in the frame of op_ctx and
\* go to the first operation of the run list
run_operations(wr, is_on_change) ==
  [wr EXCEPT !.pc = "StartOp", !.idx = 1,
             !.tbc = TriggeredByChange(is_on_change),
             !.startups = IF is_on_change THEN @ ELSE @ + 1,
             !.reRuns = IF is_on_change THEN @ + 1 ELSE @,
             !.taken = FALSE, !.swp = 0, !.sawFail = FALSE]

\* State::Initial
ExInitial ==
  /\ w.pc = "Initial"
  /\ w' = run_operations(w, FALSE)
  /\ UNCHANGED <<ro, srv, cl>>

\* State::RunOnChange
ExRunOnChange ==
  /\ w.pc = "RunOnChange"
  /\ w' = run_operations(w, TRUE)
  /\ UNCHANGED <<ro, srv, cl>>

\* the executor is about to start an operation of the run list: count it
\* when an event is already waiting in the channel
Starting(wr) == [wr EXCEPT !.swp = IF wr.q # <<>> THEN @ + 1 ELSE @]

\* the for loop of run_operations: Ok(Some(WaitingForChange)) after the last
\* operation; else op.start(&op_ctx)?, where an error ends the executor
\*   command    Command::start
\*   on-change  OnChange::start: the wrapped command when TriggeredByChange
\*              is true, else Finished(Success)
\*   run-task   RunTask::start, which runs the task before it returns
ExStartOp ==
  /\ w.pc = "StartOp"
  /\ IF w.idx > Len(w.run)
       THEN /\ w' = [w EXCEPT !.pc = "WaitingForChange", !.sawFail = FALSE]
            /\ ro' = ro
     ELSE IF w.run[w.idx] = "run-task"
       THEN /\ w' = [Starting(w) EXCEPT !.pc = "RtStart", !.rt = 1]
            /\ ro' = ro
     ELSE IF w.run[w.idx] = "on-change" /\ w.tbc # TRUE
       THEN /\ w' = [Starting(w) EXCEPT !.pc = "Poll", !.oc = @ \union {<<w.tbc, FALSE>>}]
            /\ ro' = RunningOperation_finished("Success", "none")
     ELSE \E spawned \in BOOLEAN :
            /\ ro' = Command_start(spawned)
            /\ w' = [Starting(w) EXCEPT
                       !.pc = IF spawned THEN "Poll" ELSE "Failed",
                       !.oc = IF w.run[w.idx] = "on-change"
                                THEN @ \union {<<w.tbc, TRUE>>} ELSE @]
  /\ UNCHANGED <<srv, cl>>

\* Task::run inside RunTask::start, next operation of the task: start it
ExRtStart ==
  /\ w.pc = "RtStart"
  /\ \E spawned \in BOOLEAN :
       /\ ro' = Command_start(spawned)
       /\ w' = [w EXCEPT !.pc = IF spawned THEN "RtWait" ELSE "Failed"]
  /\ UNCHANGED <<srv, cl>>

\* Task::run inside RunTask::start: wait for the outcome of the operation;
\* at the end RunTask::start returns Finished(outcome)
ExRtWait ==
  /\ w.pc = "RtWait"
  /\ Operation_run_returns(ro)
  /\ LET v == RecvValue(ro) IN
       IF v \notin Outcome
         THEN /\ w' = [w EXCEPT !.pc = "Failed"]
              /\ ro' = [ro EXCEPT !.out = <<>>, !.cancelTx = FALSE]
         ELSE IF TaskContinues(v, w.rt, Len(TargetTask))
           THEN /\ w' = [w EXCEPT !.pc = "RtStart", !.rt = @ + 1]
                /\ ro' = [ro EXCEPT !.out = <<>>, !.cancelTx = FALSE]
           ELSE /\ w' = [w EXCEPT !.pc = "Poll"]
                /\ ro' = RunningOperation_finished(v, ro.proc)
  /\ UNCHANGED <<srv, cl>>

\* a run_operations that goes on with the next operation after a cancel
AfterCancelNextOp(wr) == [wr EXCEPT !.pc = "StartOp", !.idx = @ + 1]

\* running.cancel()? has returned Ok: return Ok(Some(Debouncing(event.time)))
AfterCancel(wr) == [wr EXCEPT !.pc = "Debouncing"]

\* the busy loop, incoming_events.recv_timeout(BUSY_WAIT_DURATION):
\*   Ok(event)     running.cancel(), which returns at once on an operation
\*                 without a cancel channel, then Debouncing(event.time)
\*   Disconnected  return Ok(None): the executor returns and `running` is
\*                 dropped
\*   Timeout       try_finish: with Some(outcome), whatever the outcome,
\*                 break to the next operation
ExPoll ==
  /\ w.pc = "Poll"
  /\ IF w.q # <<>>
       THEN LET wr == [w EXCEPT !.q = Tail(@), !.trigger = Head(w.q), !.taken = TRUE] IN
              IF ro.some
                THEN /\ w' = [wr EXCEPT !.pc = "CancelSend"]
                     /\ ro' = [ro EXCEPT !.pending = ro.cancelRx]
                ELSE /\ w' = AfterCancel(wr)
                     /\ ro' = ro
     ELSE IF Disconnected(w)
       THEN /\ w' = [w EXCEPT !.pc = "Done"]
            /\ ro' = [ro EXCEPT !.cancelTx = FALSE]
     ELSE /\ ro.out # <<>>
          /\ ro' = [ro EXCEPT !.out = <<>>]
          /\ w' = IF Head(ro.out) \notin Outcome
                    THEN [w EXCEPT !.pc = "Failed"]
                    ELSE [w EXCEPT !.pc = "StartOp", !.idx = @ + 1,
                                   !.sawFail = ~is_success(Head(ro.out))]
  /\ UNCHANGED <<srv, cl>>

\* RunningOperation::cancel called by the executor: cancel.send(()) returns
ExCancelSent ==
  /\ w.pc = "CancelSend"
  /\ CanFinishSend(ro)
  /\ w' = [w EXCEPT !.pc = "CancelRecv"]
  /\ ro' = [ro EXCEPT !.pending = FALSE]
  /\ UNCHANGED <<srv, cl>>

\* ... and self.outcome.recv() returns
ExCancelRecv ==
  /\ w.pc = "CancelRecv"
  /\ CanRecv(ro)
  /\ w' = IF CancelResult(TRUE, RecvValue(ro)) = "Ok"
            THEN AfterCancel(w) ELSE [w EXCEPT !.pc = "Failed"]
  /\ ro' = [ro EXCEPT !.out = <<>>]
  /\ UNCHANGED <<srv, cl>>

\* State::WaitingForChange: incoming_events.recv()
ExWaitingForChange ==
  /\ w.pc = "WaitingForChange"
  /\ w.q # <<>> \/ Disconnected(w)
  /\ w' = IF w.q # <<>>
            THEN [w EXCEPT !.pc = "Debouncing", !.trigger = Head(w.q), !.q = Tail(@)]
            ELSE [w EXCEPT !.pc = "Done"]
  /\ UNCHANGED <<ro, srv, cl>>

\* a debounce that does not sleep
SleepSkipped(now, trigger_time, debounce_duration) == TRUE

\* the sleep of State::Debouncing is over: thread::sleep lasts at least
\* debounce_duration - trigger_time.elapsed(), and is skipped when that is
\* negative
SleepOver(now, trigger_time, debounce_duration) ==
  now >= trigger_time + debounce_duration

\* State::Debouncing after the sleep, incoming_events.try_recv():
\*   Ok(event)     clear the queue, the last event is the new trigger; the
\*                 try_recv that ends the clearing may find the channel
\*                 disconnected
\*   Disconnected  return
\*   Empty         RunOnChange
ExDebouncing ==
  /\ w.pc = "Debouncing"
  /\ SleepOver(w.now, w.trigger, w.debounce)
  /\ w' = IF w.q # <<>>
            THEN [w EXCEPT !.q = <<>>, !.trigger = Last(w.q),
                           !.pc = IF Disconnected(w) THEN "Done" ELSE "Debouncing"]
          ELSE IF Disconnected(w)
            THEN [w EXCEPT !.pc = "Done"]
          ELSE [w EXCEPT !.pc = "RunOnChange",
                         !.race = @ \/ w.stamped # NoEvent,
                         !.early = @ \/ (/\ w.stamped # NoEvent
                                          /\ w.stamped < w.trigger + w.debounce
                                          /\ w.now < w.stamped + w.debounce)]
  /\ UNCHANGED <<ro, srv, cl>>

\* the threads of a Watch and of the operation it runs
WatchThreads ==
  \/ ExInitial
  \/ ExRunOnChange
  \/ ExStartOp
  \/ ExRtStart
  \/ ExRtWait
  \/ ExPoll
  \/ ExCancelSent
  \/ ExCancelRecv
  \/ ExWaitingForChange
  \/ ExDebouncing
  \/ WatcherSend
  \/ WatcherEnd
  \/ Running_cancel_join
  \/ CommandWorker
  \/ WorkerExit

\* what the environment does: file changes, the exit of a child, the user's
\* cancel, time
WatchEnvironment ==
  \/ WatcherStamp
  \/ ProcExit
  \/ Running_cancel
  \/ Tick

InitWatch ==
  /\ ro = NoOperation
  /\ srv = NoServer
  /\ cl = NoCaller
  /\ \E run \in Pipelines, debounce \in 1..MaxDebounce : w = Watch_start(run, debounce)

NextWatch == WatchThreads \/ WatchEnvironment

\* one Watch from the return of Watch::start on
SpecWatch == InitWatch /\ [][NextWatch]_vars

-----------------------------------------------------------------------------
(* Claims about Watch, checked under SpecWatch.                            *)

\* the Watch is at rest: the executor waits for a change, no event is on its
\* way and nobody has cancelled
Settled == w.pc = "WaitingForChange" /\ w.q = <<>> /\ w.stamped = NoEvent /\ w.cn = "idle"

\* what C5 says of the runs of the pipeline: never more re-runs than bursts,
\* no re-run started less than a debounce duration after the last event,
\* and after exactly one burst exactly two runs, one of them on start-up
Coalesced ==
  /\ w.reRuns <= w.bursts
  /\ ~w.early
  /\ (Settled /\ w.bursts = 1 => w.startups = 1 /\ w.reRuns = 1)

C6_EventCancelsExecution ==
  /\ (w.pc = "Debouncing" => ro.proc # "running")
  /\ (w.q # <<>> /\ ro.proc = "running" =>
        w.pc \in {"Poll", "CancelSend", "CancelRecv"})

C8_FailureStopsPipeline ==
  /\ ~(w.sawFail /\ w.pc \in {"Poll", "RtStart", "RtWait", "CancelSend", "CancelRecv"})
  /\ w.res # "Failure"

\* C9: a cancelled Watch whose executor has returned normally has cancelled
\* the inner operation that was running: no child process is left running
\* when Running::cancel returns.
C9_CancelReachesInner ==
  w.cn = "joined" /\ w.pc = "Done" => ro.proc # "running"

\* C10: TriggeredByChange is false in the start-up run and true in every run
\* after a change, and an on-change operation starts its wrapped operation
\* exactly in the runs after a change.
C10_TriggeredByChange ==
  /\ (w.pc \in {"StartOp", "Poll", "RtStart", "RtWait", "CancelSend", "CancelRecv"} =>
        w.tbc = (w.reRuns > 0))
  /\ (w.reRuns = 0 => w.oc \subseteq {<<FALSE, FALSE>>})
  /\ w.oc \subseteq {<<FALSE, FALSE>>, <<TRUE, TRUE>>}

\* C10, its case: an on-change operation has been started in the start-up run
\* and in a run after a change.
C10_Witness == w.oc = {<<FALSE, FALSE>>, <<TRUE, TRUE>>}

-----------------------------------------------------------------------------
(* Claims about tasks and commands, checked under SpecOp.                  *)

C13_NextAfterOutcome ==
  cl.op = "run-task" /\ ro.kind = "command" /\ cl.pc # "rt_wait" =>
    ro.emitted = 1 /\ ro.out = <<>>

\* C13, its case: the second operation of the task is running, started after
\* the first one's outcome was received.
C13_Witness ==
  /\ cl.op = "run-task"
  /\ cl.pc = "rt_wait"
  /\ cl.rt = 2
  /\ ro.proc = "running"

\* C18: a Command worker emits Success exactly for a child that exited with
\* code 0, Failure exactly for one that exited with another status, and
\* Cancelled only for a child that had not exited when a cancel request was
\* received on that wake.
C18_ExitBeforeCancel ==
  ro.kind = "command" /\ ro.out # <<>> =>
    /\ (Head(ro.out) = "Success" <=> ro.proc = "exit0")
    /\ (Head(ro.out) = "Failure" <=> ro.proc = "exit1")
    /\ (Head(ro.out) = "Cancelled" =>
          ro.proc = "killed" /\ cl.pc \in {"cancel_send", "cancel_recv"})

\* C18, its case: a cancel was requested before the worker's last wake and
\* the child had exited with code 0 by then: the outcome is Success.
C18_Witness ==
  /\ ro.kind = "command"
  /\ cl.pc \in {"cancel_send", "cancel_recv"}
  /\ cl.callKind = "first"
  /\ ro.out = <<"Success">>

\* C19: when a Command has emitted Cancelled its child has been killed and
\* waited for: it is neither running nor unreaped.
C19_CancelledChildReaped ==
  ro.kind = "command" /\ ro.out = <<"Cancelled">> => ro.proc \notin {"running", "killed"}

\* C20: when spawning fails, Command::start returns an error, with the hint
\* exactly when the cause is NotFound, and there is no worker and no
\* RunningOperation.
C20_SpawnFailure ==
  cl.op = "command" =>
    /\ (cl.pc = "start_err" =>
          /\ ro = NoOperation
          /\ cl.err.cause \in SpawnResults \ {"Ok"}
          /\ cl.err.hint = (cl.err.cause = "NotFound"))
    /\ (ro # NoOperation => cl.err = "none")

\* C20, its case: start has failed because the program was not found.
C20_Witness ==
  /\ cl.op = "command"
  /\ cl.pc = "start_err"
  /\ cl.err = SpawnError("NotFound")

-----------------------------------------------------------------------------
(* Claim about RunTask under a Watch, checked under SpecWatch.             *)

\* C17: a cancel issued while RunTask executes its target task takes effect:
\* once the Watch that runs it has been cancelled, the executor, as long as it
\* is inside the task's run, or some other thread of the Watch can take a
\* step that leads on to the cancelled child and the Cancelled outcome.
C17_RunTaskCancel ==
  w.cn = "joining" /\ w.pc \in {"RtStart", "RtWait"} => ENABLED WatchThreads

-----------------------------------------------------------------------------
(* Configuration: loading and validation (cfg.rs, task.rs).                *)

\* how deep operations are nested in the configurations looked at
MaxNesting == 2

\* an operation of the configuration: its keyword, the task a run-task
\* names, the operations a watch, concurrently or on-change holds
Op(kind, task, ops) == [kind |-> kind, task |-> task, ops |-> ops]

\* an http operation of the configuration: whether `proxy` and `serve` are
\* set
HttpOp(proxy, serve) ==
  [kind |-> "http", task |-> "", ops |-> <<>>, proxy |-> proxy, serve |-> serve]

\* the operations without children: a command, a run-task that names the
\* task "b" or the task "missing", an http with or without proxy and serve
LeafOps ==
  {Op("command", "", <<>>)}
    \union {Op("run-task", t, <<>>) : t \in {"b", "missing"}}
    \union {HttpOp(proxy, serve) : proxy, serve \in BOOLEAN}

\* operations nested up to depth d
RECURSIVE OpsOfDepth(_)
OpsOfDepth(d) ==
  IF d = 0 THEN LeafOps
  ELSE LET inner == OpsOfDepth(d - 1) IN
         inner \union {Op(k, "", <<o>>) : k \in {"on-change", "watch", "concurrently"},
                                          o \in inner}

\* Config.tasks: the task "default" with one operation, with or without a
\* task "b"; no task is named "missing"
Configs ==
  {[default |-> <<o>>] : o \in OpsOfDepth(MaxNesting)}
    \union {[default |-> <<o>>, b |-> <<Op("command", "", <<>>)>>] : o \in OpsOfDepth(MaxNesting)}

\* ParentKind::Task(name)
ParentTask == "task"

\* OnChange::validate
OnChange_validate(parent) == parent = "watch"

\* RunTask::validate
RunTask_validate(op, tasks) == op.task \in DOMAIN tasks

\* Operation::validate of one operation: the implementations of on-change
\* and run-task, the default Ok(()) for every other keyword; no
\* implementation validates the operations it holds
Operation_validate(op, parent, tasks) ==
  IF op.kind = "on-change" THEN OnChange_validate(parent)
  ELSE IF op.kind = "run-task" THEN RunTask_validate(op, tasks)
  ELSE TRUE

\* Task::validate: every operation of the task's list
Task_validate(name, tasks) ==
  \A i \in 1..Len(tasks[name]) : Operation_validate(tasks[name][i], ParentTask, tasks)

\* Config::validate: every task
Config_validate(tasks) == \A name \in DOMAIN tasks : Task_validate(name, tasks)

\* main before Config::load
NoMain == [pc |-> "load", tasks |-> <<>>]

\* Config::load: deserialize, then validate; an error ends main
Config_load ==
  /\ cl.pc = "load"
  /\ cl' = [cl EXCEPT !.pc = IF Config_validate(cl.tasks) THEN "loaded" ELSE "config_err"]
  /\ UNCHANGED <<ro, srv, w>>

\* Http::start, the match on (proxy, serve): the mode of the dev server, or
\* a panic ("bug: invalid config", "file server not implemented yet :(")
Http_mode(proxy, serve) == IF proxy /\ ~serve THEN "RevProxy" ELSE "panic"

\* main: run the task "default", which starts its first operation
Main_run ==
  /\ cl.pc = "loaded"
  /\ LET op == cl.tasks["default"][1] IN
       cl' = [cl EXCEPT !.pc = IF op.kind = "http" /\ Http_mode(op.proxy, op.serve) = "panic"
                                 THEN "panicked" ELSE "run"]
  /\ UNCHANGED <<ro, srv, w>>

InitConfig ==
  /\ ro = NoOperation
  /\ srv = NoServer
  /\ w = NoWatch
  /\ \E tasks \in Configs : cl = [NoMain EXCEPT !.tasks = tasks]

NextConfig == Config_load \/ Main_run

\* main from its start to the run of the default task
SpecConfig == InitConfig /\ [][NextConfig]_vars

\* an operation and all it holds are as the configuration rules demand: an
\* on-change directly under a watch, a run-task naming a task that exists
RECURSIVE WellFormed(_, _, _)
WellFormed(op, parent, tasks) ==
  /\ (op.kind = "on-change" => parent = "watch")
  /\ (op.kind = "run-task" => op.task \in DOMAIN tasks)
  /\ \A i \in 1..Len(op.ops) : WellFormed(op.ops[i], op.kind, tasks)

\* C11: when validation has succeeded, every on-change anywhere in the
\* configuration has a watch as its direct parent and every run-task anywhere
\* names an existing task; and nothing is run after a validation error.
C11_ValidationComplete ==
  cl.pc \in {"loaded", "run"} =>
    \A name \in DOMAIN cl.tasks : \A i \in 1..Len(cl.tasks[name]) :
      WellFormed(cl.tasks[name][i], ParentTask, cl.tasks)

\* an operation and all it holds are free of an http that has both proxy and
\* serve, or neither
RECURSIVE HttpModesValid(_)
HttpModesValid(op) ==
  /\ (op.kind = "http" => (op.proxy /\ ~op.serve) \/ (~op.proxy /\ op.serve))
  /\ \A i \in 1..Len(op.ops) : HttpModesValid(op.ops[i])

\* C25: an http operation with both proxy and serve, or with neither, is
\* rejected by validation: once Config::load has succeeded the configuration
\* holds no such operation, so none is ever started.
C25_HttpModeValidated ==
  cl.pc # "load" /\ cl.pc # "config_err" =>
    \A name \in DOMAIN cl.tasks : \A i \in 1..Len(cl.tasks[name]) :
      HttpModesValid(cl.tasks[name][i])

-----------------------------------------------------------------------------
(* Concurrently (op/concurrently.rs): a caller holding a                   *)
(* RunningConcurrently whose children are commands.                        *)

\* the most children a Concurrently has
MaxChildren == 2

\* Outcome::is_failure
is_failure(o) == o = "Failure"

\* before Concurrently::start. n is the length of the operation list, kids
\* every child started so far (with its worker and child process),
\* operations the Vec of RunningConcurrently, as indices into kids
NoConcurrently ==
  [pc |-> "start", n |-> 0, kids |-> <<>>, operations |-> <<>>,
   any_failure |-> FALSE, i |-> 0, res |-> "none"]

\* a RunningOperation is dropped: its cancel sender goes
Dropped(r) == [r EXCEPT !.cancelTx = FALSE]

\* Concurrently::start, one turn of `running.push(op.start(&op_ctx)?)`: a
\* start error returns from start, dropping the Vec `running`; after the last
\* child the RunningConcurrently is returned
Concurrently_start ==
  /\ cl.pc = "start"
  /\ \E spawned \in BOOLEAN :
       cl' = IF spawned
               THEN [cl EXCEPT !.kids = Append(@, Command_start(TRUE)),
                               !.operations = Append(@, Len(cl.kids) + 1),
                               !.pc = IF Len(cl.kids) + 1 = cl.n THEN "held" ELSE "start"]
               ELSE [cl EXCEPT !.kids = [k \in DOMAIN cl.kids |-> Dropped(cl.kids[k])],
                               !.operations = <<>>,
                               !.pc = "start_err"]
  /\ UNCHANGED <<ro, srv, w>>

\* the worker of child k wakes up
ConcWorker(k) ==
  /\ cl.kids[k].wpc = "run"
  /\ CommandWake(cl.kids[k]) # cl.kids[k]
  /\ cl' = [cl EXCEPT !.kids[k] = CommandWake(@)]
  /\ UNCHANGED <<ro, srv, w>>

\* the worker thread of child k ends after its send
ConcWorkerExit(k) ==
  /\ cl.kids[k].wpc = "sent"
  /\ cl' = [cl EXCEPT !.kids[k].wpc = "exited", !.kids[k].outTx = FALSE]
  /\ UNCHANGED <<ro, srv, w>>

\* the child process of child k exits by itself
ConcProcExit(k) ==
  /\ cl.kids[k].proc = "running"
  /\ \E p \in {"exit0", "exit1"} : cl' = [cl EXCEPT !.kids[k].proc = p]
  /\ UNCHANGED <<ro, srv, w>>

\* the threads and processes of the children
ConcChildren ==
  \E k \in 1..MaxChildren :
    /\ k \in DOMAIN cl.kids
    /\ (ConcWorker(k) \/ ConcWorkerExit(k) \/ ConcProcExit(k))

\* the outcome of a RunningConcurrently whose children have all finished
ConcOutcome(any_failure) == IF any_failure THEN "Failure" ELSE "Success"

\* RunningConcurrently::finish is called
Concurrently_finish ==
  /\ cl.pc = "held"
  /\ cl' = [cl EXCEPT !.pc = "finish", !.i = 1]
  /\ UNCHANGED <<ro, srv, w>>

\* finish, one turn of its loop: op.finish(ctx)? waits for the child's
\* outcome; after the last child finish returns
Concurrently_finish_next ==
  /\ cl.pc = "finish"
  /\ IF cl.i > Len(cl.operations)
       THEN cl' = [cl EXCEPT !.pc = "finished", !.res = ConcOutcome(cl.any_failure)]
       ELSE LET k == cl.operations[cl.i] IN
              /\ CanRecv(cl.kids[k])
              /\ cl' = IF RecvValue(cl.kids[k]) \notin Outcome
                         THEN [cl EXCEPT !.pc = "finished", !.res = Err,
                                         !.kids[k].out = <<>>]
                         ELSE [cl EXCEPT !.i = @ + 1, !.kids[k].out = <<>>,
                                         !.any_failure = @ \/ is_failure(RecvValue(cl.kids[k]))]
  /\ UNCHANGED <<ro, srv, w>>

\* Vec::swap_remove
swap_remove(v, i) ==
  IF i = Len(v) THEN SubSeq(v, 1, Len(v) - 1)
  ELSE [SubSeq(v, 1, Len(v) - 1) EXCEPT ![i] = v[Len(v)]]

\* try_finish, second loop: remove the positions in `finished` from the
\* highest to the lowest
RECURSIVE remove_finished(_, _)
remove_finished(v, finished) ==
  IF finished = {} THEN v
  ELSE LET i == CHOOSE x \in finished : \A y \in finished : y <= x IN
         remove_finished(swap_remove(v, i), finished \ {i})

\* RunningConcurrently::try_finish, when at least one child has an outcome
\* ready: take the outcomes that are there, remove those children; Some(..)
\* when none is left, else None
Concurrently_try_finish ==
  /\ cl.pc = "held"
  /\ LET finished == {i \in 1..Len(cl.operations) : cl.kids[cl.operations[i]].out # <<>>}
         done == {cl.operations[i] : i \in finished}
         left == remove_finished(cl.operations, finished)
         failed == \E k \in done : is_failure(Head(cl.kids[k].out)) IN
       /\ finished # {}
       /\ cl' = [cl EXCEPT !.kids = [k \in DOMAIN cl.kids |->
                                       IF k \in done THEN [cl.kids[k] EXCEPT !.out = <<>>]
                                       ELSE cl.kids[k]],
                           !.operations = left,
                           !.any_failure = @ \/ failed,
                           !.pc = IF left = <<>> THEN "finished" ELSE "held",
                           !.res = IF left = <<>> THEN ConcOutcome(cl.any_failure \/ failed)
                                   ELSE @]
  /\ UNCHANGED <<ro, srv, w>>

\* a cancel that reaches the first child only
drain_first(v) == SubSeq(v, 1, 1)

\* self.operations.drain(..): every child still in the Vec
drain(v) == v

\* RunningConcurrently::cancel is called
Concurrently_cancel ==
  /\ cl.pc = "held"
  /\ cl' = [cl EXCEPT !.pc = "cancel", !.operations = drain(@)]
  /\ UNCHANGED <<ro, srv, w>>

\* cancel, one turn of its loop, op.cancel()?: start cancel.send(()) to the
\* next child; after the last child cancel returns Ok(())
Concurrently_cancel_next ==
  /\ cl.pc = "cancel"
  /\ IF cl.operations = <<>>
       THEN cl' = [cl EXCEPT !.pc = "cancelled", !.res = "Ok"]
       ELSE LET k == Head(cl.operations) IN
              cl' = [cl EXCEPT !.pc = "cancel_send",
                               !.kids[k].pending = cl.kids[k].cancelRx]
  /\ UNCHANGED <<ro, srv, w>>

\* op.cancel(): cancel.send(()) returns
Concurrently_cancel_sent ==
  /\ cl.pc = "cancel_send"
  /\ CanFinishSend(cl.kids[Head(cl.operations)])
  /\ cl' = [cl EXCEPT !.pc = "cancel_recv", !.kids[Head(cl.operations)].pending = FALSE]
  /\ UNCHANGED <<ro, srv, w>>

\* op.cancel(): self.outcome.recv() returns; on with the next child
Concurrently_cancel_recv ==
  /\ cl.pc = "cancel_recv"
  /\ CanRecv(cl.kids[Head(cl.operations)])
  /\ cl' = [cl EXCEPT !.pc = "cancel", !.operations = Tail(@),
                      !.kids[Head(cl.operations)].out = <<>>]
  /\ UNCHANGED <<ro, srv, w>>

\* the caller of Concurrently
ConcCaller ==
  \/ Concurrently_start
  \/ Concurrently_finish
  \/ Concurrently_finish_next
  \/ Concurrently_try_finish
  \/ Concurrently_cancel
  \/ Concurrently_cancel_next
  \/ Concurrently_cancel_sent
  \/ Concurrently_cancel_recv

InitConc ==
  /\ ro = NoOperation
  /\ srv = NoServer
  /\ w = NoWatch
  /\ \E n \in 1..MaxChildren : cl = [NoConcurrently EXCEPT !.n = n]

NextConc == ConcCaller \/ ConcChildren

\* one Concurrently of commands from its start on
SpecConc == InitConc /\ [][NextConc]_vars

-----------------------------------------------------------------------------
(* Claims about Concurrently, checked under SpecConc.                      *)

\* a child process of the Concurrently is running
SomeChildRunning == \E k \in DOMAIN cl.kids : cl.kids[k].proc = "running"

\* C14: when the start of a child fails, the children started before it are
\* cancelled before Concurrently::start returns the error: none of them is
\* left running.
C14_StartFailureCancels == cl.pc = "start_err" => ~SomeChildRunning

\* C15: Concurrently emits the first outcome that is not Success and cancels
\* the children still running at that moment: once it has seen a failure it
\* does not go on waiting for a child that runs; and it emits Success only
\* when every child has emitted Success.
C15_FirstFailureCancels ==
  /\ (cl.any_failure /\ cl.pc \in {"finish", "held"} =>
        \A i \in 1..Len(cl.operations) :
          (cl.pc = "finish" => i >= cl.i) => cl.kids[cl.operations[i]].proc # "running")
  /\ (cl.pc = "finished" /\ cl.res = "Success" =>
        \A k \in DOMAIN cl.kids : cl.kids[k].proc = "exit0")

-----------------------------------------------------------------------------
(* Context: the frame stack and its variables (context.rs), and the        *)
(* operations that read and write them: SetWorkDir (op/workdir.rs), the    *)
(* working directory of a Command (op/command.rs), Http's Reloader and     *)
(* Reload (op/http.rs).                                                    *)

\* the most frames there are
MaxFrames == 3

\* the most operations started
MaxOps == 3

\* Option<T>
None == <<>>
Some(v) == <<v>>

\* a path is the sequence of its components (Path::components): RootDir
\* first when it is absolute, CurDir only as the first component
RootDir == "/"
CurDir == "."
ParentDir == ".."

\* the paths a configuration gives to set-workdir and to a command's
\* workdir: /x, ./a, ., a, ../a
InputPaths ==
  {<<RootDir, "x">>, <<CurDir, "a">>, <<CurDir>>, <<"a">>, <<ParentDir, "a">>}

\* the directories of the configuration file: / and /r
RootPaths == {<<RootDir>>, <<RootDir, "r">>}

\* Path::is_absolute
is_absolute(p) == p # <<>> /\ p[1] = RootDir

\* Path::starts_with: component by component
starts_with(p, base) == Len(base) <= Len(p) /\ SubSeq(p, 1, Len(base)) = base

\* Path::strip_prefix, where starts_with holds
strip_prefix(p, base) == SubSeq(p, Len(base) + 1, Len(p))

\* Path::join: an absolute path replaces the base
join(base, p) == IF is_absolute(p) THEN p ELSE base \o p

\* the type keys of the variables: WorkDir, Reloader
VarTypes == {"WorkDir", "Reloader"}

\* Frame::new: a frame of the given kind and parent with an empty variable
\* map; the parent of Root is 0
Frame_new(kind, parent) ==
  [kind |-> kind, parent |-> parent, vars |-> [T \in VarTypes |-> None]]

\* Frame::insert_var: one value per type, the old one is replaced
insert_var(fs, f, T, val) == [fs EXCEPT ![f].vars[T] = Some(val)]

\* Frame::get_var
get_var(fs, f, T) == fs[f].vars[T]

\* Context::frames: the frames from the top frame to Root, along the parents
RECURSIVE frames(_, _)
frames(fs, top) ==
  IF fs[top].parent = 0 THEN <<top>> ELSE <<top>> \o frames(fs, fs[top].parent)

\* Context::root_frame: frames().last()
root_frame(fs, top) == Last(frames(fs, top))

\* Iterator::find_map over a walk of frames, taken from its far end
RECURSIVE find_map_last(_, _, _)
find_map_last(fs, walk, T) ==
  IF walk = <<>> THEN None
  ELSE IF get_var(fs, Last(walk), T) # None THEN get_var(fs, Last(walk), T)
  ELSE find_map_last(fs, SubSeq(walk, 1, Len(walk) - 1), T)

\* Iterator::find_map over a walk of frames: the first hit
RECURSIVE find_map(_, _, _)
find_map(fs, walk, T) ==
  IF walk = <<>> THEN None
  ELSE IF get_var(fs, Head(walk), T) # None THEN get_var(fs, Head(walk), T)
  ELSE find_map(fs, Tail(walk), T)

\* Context::get_closest_var
get_closest_var(fs, top, T) == find_map(fs, frames(fs, top), T)

\* Context::workdir: the closest WorkDir; Root always holds one
workdir(fs, top) == get_closest_var(fs, top, "WorkDir")[1]

\* the base a path that is neither absolute nor begins with `.` is joined
\* to, were it the closest WorkDir
join_base_closest(fs, top) == workdir(fs, top)

\* join_workdir, third case: the WorkDir of the root frame
join_base(fs, top) == get_var(fs, root_frame(fs, top), "WorkDir")[1]

\* Context::join_workdir
join_workdir(fs, top, new_path) ==
  IF is_absolute(new_path) THEN new_path
  ELSE IF starts_with(new_path, <<CurDir>>)
    THEN join(workdir(fs, top), strip_prefix(new_path, <<CurDir>>))
  ELSE join(join_base(fs, top), new_path)

\* a Command that runs its child in the closest WorkDir whatever `workdir`
\* says
Command_workdir_unset(fs, top, wd) == workdir(fs, top)

\* Command::start: the directory the child runs in, from the optional
\* `workdir` of the configuration
Command_workdir(fs, top, wd) ==
  IF wd # None THEN join_workdir(fs, top, wd[1]) ELSE workdir(fs, top)

\* Context::new: the root frame with WorkDir = the directory of the
\* configuration file (made absolute with the current directory); no
\* operation has been started and no reload channel made
Context_new(root_path) ==
  [pc |-> "ctx",
   frames |-> insert_var(<<Frame_new("Root", 0)>>, 1, "WorkDir", root_path),
   chans |-> <<>>, n |-> 0,
   last |-> [op |-> "none", ctx |-> 0, path |-> None, res |-> "none",
             dir |-> None, is_dir |-> FALSE, handle |-> NoOperation,
             before |-> <<>>, chansBefore |-> <<>>]]

\* what an operation leaves in cl.last: the operation, the top frame of its
\* context, its path, its result, the directory it resolved, what is_dir
\* said of it, the RunningOperation it returned, and the frames and channels
\* it found
Started(op, top, path, res, dir) ==
  [op |-> op, ctx |-> top, path |-> path, res |-> res, dir |-> dir,
   is_dir |-> FALSE, handle |-> NoOperation,
   before |-> cl.frames, chansBefore |-> cl.chans]

\* Context::fork_task, fork_op: a new frame on top of an existing one; a task
\* frame on Root, an operation frame on any other
Context_fork ==
  /\ cl.pc = "ctx"
  /\ Len(cl.frames) < MaxFrames
  /\ \E parent \in DOMAIN cl.frames :
       cl' = [cl EXCEPT !.frames =
                Append(@, Frame_new(IF cl.frames[parent].kind = "Root" THEN "Task"
                                    ELSE "Operation", parent))]
  /\ UNCHANGED <<ro, srv, w>>

\* the frame SetWorkDir writes to, were it the root frame
SetWorkDir_target_root(fs, top) == root_frame(fs, top)

\* the frame SetWorkDir writes to: ctx.top_frame
SetWorkDir_target(fs, top) == top

\* SetWorkDir::start in the context with the given top frame: resolve, test
\* is_dir, insert WorkDir, return Finished(Success)
SetWorkDir_start ==
  /\ cl.pc = "ctx"
  /\ cl.n < MaxOps
  /\ \E top \in DOMAIN cl.frames, p \in InputPaths, is_dir \in BOOLEAN :
       LET new_workdir == join_workdir(cl.frames, top, p) IN
         cl' = [cl EXCEPT
                  !.n = @ + 1,
                  !.frames = IF is_dir
                               THEN insert_var(@, SetWorkDir_target(cl.frames, top),
                                               "WorkDir", new_workdir)
                               ELSE @,
                  !.last = [Started("set-workdir", top, Some(p),
                                    IF is_dir THEN "Success" ELSE Err,
                                    Some(new_workdir))
                              EXCEPT !.is_dir = is_dir]]
  /\ UNCHANGED <<ro, srv, w>>

\* Command::start in the context with the given top frame, up to
\* command.current_dir(workdir)
Command_start_in ==
  /\ cl.pc = "ctx"
  /\ cl.n < MaxOps
  /\ \E top \in DOMAIN cl.frames, wd \in {None} \union {Some(p) : p \in InputPaths} :
       cl' = [cl EXCEPT
                !.n = @ + 1,
                !.last = Started("command", top, wd, "Ok",
                                 Some(Command_workdir(cl.frames, top, wd)))]
  /\ UNCHANGED <<ro, srv, w>>

\* Http::start in the context with the given top frame: a new reload channel,
\* its sender inserted as Reloader, its receiver moved into the worker
Http_start_in ==
  /\ cl.pc = "ctx"
  /\ cl.n < MaxOps
  /\ \E top \in DOMAIN cl.frames :
       cl' = [cl EXCEPT
                !.n = @ + 1,
                !.chans = Append(@, [rx |-> TRUE, sent |-> 0]),
                !.frames = insert_var(@, top, "Reloader", Len(cl.chans) + 1),
                !.last = Started("http", top, None, "Ok", None)]
  /\ UNCHANGED <<ro, srv, w>>

\* the worker of an Http ends (it returns after a cancel, or it panics): the
\* receiver of its reload channel is dropped; the Reloader stays in the frame
Http_worker_ends ==
  /\ cl.pc = "ctx"
  /\ \E c \in DOMAIN cl.chans :
       /\ cl.chans[c].rx
       /\ cl' = [cl EXCEPT !.chans[c].rx = FALSE]
  /\ UNCHANGED <<ro, srv, w>>

\* Reload::start in the context with the given top frame: without a Reloader
\* an error; else send(()), which panics in expect() when the receiver is
\* gone, and RunningOperation::finished(Success)
Reload_start_in ==
  /\ cl.pc = "ctx"
  /\ cl.n < MaxOps
  /\ \E top \in DOMAIN cl.frames :
       LET reloader == get_closest_var(cl.frames, top, "Reloader") IN
         cl' = [cl EXCEPT
                  !.n = @ + 1,
                  !.chans = IF reloader # None /\ cl.chans[reloader[1]].rx
                              THEN [@ EXCEPT ![reloader[1]].sent = @ + 1]
                              ELSE @,
                  !.last = [Started("reload", top, None,
                                    IF reloader = None THEN Err
                                    ELSE IF cl.chans[reloader[1]].rx THEN "Ok"
                                    ELSE "panic",
                                    None)
                              EXCEPT !.handle = IF reloader # None /\ cl.chans[reloader[1]].rx
                                                  THEN Reload_start ELSE NoOperation]]
  /\ UNCHANGED <<ro, srv, w>>

InitCtx ==
  /\ ro = NoOperation
  /\ srv = NoServer
  /\ w = NoWatch
  /\ \E root_path \in RootPaths : cl = Context_new(root_path)

NextCtx ==
  \/ Context_fork
  \/ SetWorkDir_start
  \/ Command_start_in
  \/ Http_start_in

\* set-workdir, command and http started in the contexts of one frame tree
SpecCtx == InitCtx /\ [][NextCtx]_vars

NextReload ==
  \/ Context_fork
  \/ Http_start_in
  \/ Http_worker_ends
  \/ Reload_start_in

\* http and reload started in the contexts of one frame tree
SpecReload == InitCtx /\ [][NextReload]_vars

-----------------------------------------------------------------------------
(* Claims about the context, checked under SpecCtx and SpecReload.         *)

\* the frames a context sees: its top frame and the ancestors of it
RECURSIVE Chain(_, _)
Chain(fs, f) == IF f = 0 THEN {} ELSE {f} \union Chain(fs, fs[f].parent)

\* the value of type T in the frame of the context nearest to its top that
\* holds one (a frame is made after its parent, so it is the youngest)
Nearest(fs, top, T) ==
  LET holders == {f \in Chain(fs, top) : fs[f].vars[T] # None} IN
    IF holders = {} THEN None
    ELSE fs[CHOOSE f \in holders : \A g \in holders : g <= f].vars[T]

\* the WorkDir of Root, the first frame
RootWorkDir(fs) == fs[1].vars["WorkDir"][1]

\* what the rules of join_workdir demand for path p in the context
Resolved(fs, top, p) ==
  IF p[1] = RootDir THEN p
  ELSE IF p[1] = CurDir THEN Nearest(fs, top, "WorkDir")[1] \o Tail(p)
  ELSE RootWorkDir(fs) \o p

\* the context has two frames below Root on one chain, and the WorkDir of
\* Root, of the frame between and of the top frame are three different paths
ThreeWorkDirs(fs, top) ==
  /\ fs[top].parent > 1
  /\ fs[top].vars["WorkDir"] # None
  /\ fs[fs[top].parent].vars["WorkDir"] # None
  /\ fs[top].vars["WorkDir"] # fs[fs[top].parent].vars["WorkDir"]
  /\ fs[top].vars["WorkDir"][1] # RootWorkDir(fs)
  /\ fs[fs[top].parent].vars["WorkDir"][1] # RootWorkDir(fs)

\* C21, as stated: a Command with a workdir runs its child in that workdir
\* resolved against the closest WorkDir, and without one in the closest
\* WorkDir.
C21_WorkdirAgainstClosest ==
  cl.last.op = "command" =>
    LET closest == Nearest(cl.last.before, cl.last.ctx, "WorkDir")[1]
        wd == cl.last.path IN
      cl.last.dir = Some(IF wd = None THEN closest
                         ELSE IF wd[1][1] = CurDir THEN closest \o Tail(wd[1])
                         ELSE join(closest, wd[1]))

\* C21, amended: a Command with a workdir runs its child in that workdir
\* resolved by the rules of join_workdir (itself when absolute, against the
\* closest WorkDir when it begins with `.`, else against the WorkDir of
\* Root), and without one in the closest WorkDir.
C21_WorkdirByJoinRules ==
  cl.last.op = "command" =>
    cl.last.dir = Some(IF cl.last.path = None
                         THEN Nearest(cl.last.before, cl.last.ctx, "WorkDir")[1]
                         ELSE Resolved(cl.last.before, cl.last.ctx, cl.last.path[1]))

\* C21, its case: a Command with the workdir `a` has been started in a
\* context whose closest WorkDir is not that of Root.
C21_Witness ==
  /\ cl.last.op = "command"
  /\ cl.last.path = Some(<<"a">>)
  /\ Nearest(cl.last.before, cl.last.ctx, "WorkDir")[1] # RootWorkDir(cl.last.before)

\* C22: in every context and for every path p, join_workdir(p) is absolute;
\* it is p when p is absolute, the closest WorkDir joined with the rest when
\* p begins with `.`, and the WorkDir of Root joined with p otherwise.
C22_JoinWorkdir ==
  cl.pc = "ctx" =>
    \A top \in DOMAIN cl.frames : \A p \in InputPaths :
      /\ is_absolute(join_workdir(cl.frames, top, p))
      /\ join_workdir(cl.frames, top, p) = Resolved(cl.frames, top, p)

\* C22, its case: a bare path has been resolved in a context whose top frame
\* and the frame between it and Root hold WorkDirs of their own.
C22_Witness ==
  /\ cl.last.op = "set-workdir"
  /\ cl.last.path = Some(<<"a">>)
  /\ ThreeWorkDirs(cl.last.before, cl.last.ctx)
  /\ cl.last.dir = Some(RootWorkDir(cl.last.before) \o <<"a">>)

\* C23: get_closest_var from a context returns the value of the nearest
\* frame of its chain that holds one; and the insert of a variable in a frame
\* changes no lookup that starts outside that frame and its descendants, the
\* ancestors among them.
C23_ClosestWins ==
  cl.pc = "ctx" =>
    /\ \A top \in DOMAIN cl.frames : \A T \in VarTypes :
         get_closest_var(cl.frames, top, T) = Nearest(cl.frames, top, T)
    /\ (cl.last.op \in {"set-workdir", "http"} =>
          \A a \in DOMAIN cl.last.before : \A T \in VarTypes :
            cl.last.ctx \notin Chain(cl.last.before, a) =>
              get_closest_var(cl.frames, a, T) = get_closest_var(cl.last.before, a, T))

\* C23, its case: a WorkDir has been inserted in a top frame whose parent and
\* Root hold other WorkDirs, and a Reloader is held somewhere.
C23_Witness ==
  /\ cl.last.op = "set-workdir"
  /\ cl.last.res = "Success"
  /\ ThreeWorkDirs(cl.frames, cl.last.ctx)
  /\ \E f \in DOMAIN cl.frames : cl.frames[f].vars["Reloader"] # None

\* the frames an operation found, as they are now
FramesNow == SubSeq(cl.frames, 1, Len(cl.last.before))

\* C24: SetWorkDir resolves its path by join_workdir; when the target is a
\* directory it returns Success and the WorkDir of its top frame is the
\* target, every other variable of every frame being as before; when it is
\* not, it returns an error and every frame is as before.
C24_SetWorkDirScoped ==
  cl.last.op = "set-workdir" =>
    LET fs == cl.last.before
        target == join_workdir(fs, cl.last.ctx, cl.last.path[1]) IN
      /\ cl.last.dir = Some(target)
      /\ cl.last.res = (IF cl.last.is_dir THEN "Success" ELSE Err)
      /\ FramesNow = IF cl.last.is_dir
                       THEN [fs EXCEPT ![cl.last.ctx].vars["WorkDir"] = Some(target)]
                       ELSE fs

\* C24, its case: a SetWorkDir in a frame below Root has succeeded and has
\* given that frame a WorkDir that Root does not have.
C24_Witness ==
  /\ cl.last.op = "set-workdir"
  /\ cl.last.res = "Success"
  /\ cl.last.ctx > 1
  /\ cl.frames[cl.last.ctx].vars["WorkDir"] # cl.frames[1].vars["WorkDir"]

\* C30: Reload::start without a Reloader in its frame or an ancestor returns
\* an error and sends nothing; with one it sends exactly one signal, on the
\* closest Reloader, and returns a finished operation with outcome Success.
C30_ReloadSendsOnce ==
  cl.last.op = "reload" =>
    LET reloader == Nearest(cl.last.before, cl.last.ctx, "Reloader") IN
      /\ cl.last.res = (IF reloader = None THEN Err ELSE "Ok")
      /\ cl.last.handle = (IF reloader = None THEN NoOperation
                           ELSE RunningOperation_finished("Success", "none"))
      /\ \A c \in DOMAIN cl.last.chansBefore :
           cl.chans[c].sent = cl.last.chansBefore[c].sent
                                + (IF reloader = Some(c) THEN 1 ELSE 0)

-----------------------------------------------------------------------------
(* The dev server's reload path (op/http.rs, http.rs): the Reloader's      *)
(* channel, the worker's reload arm, the reload task and the accept loop   *)
(* of run_ws_server.                                                       *)

\* the most reload requests sent
MaxReloads == 2

\* the most WebSocket connections made
MaxSessions == 2

\* whether the tokio runtime of the server thread is there to run tasks
RuntimeUp(s) == s.thread = "running"

\* whether the worker's closure, which owns reload_rx and the Server, has
\* ended
HttpWorkerEnded(r) == r.wpc \in {"sent", "exited", "panicked"}

\* a Reload operation in scope of the Reloader sends a request while the
\* worker holds the receiver
ReloadSignal ==
  /\ ro.kind = "http"
  /\ ~HttpWorkerEnded(ro)
  /\ srv.nsig < MaxReloads
  /\ srv' = [srv EXCEPT !.rq = @ + 1, !.nsig = @ + 1]
  /\ UNCHANGED <<ro, cl, w>>

\* select!, arm recv(reload_rx): server.reload() sends on the Server's reload
\* channel and panics when the receiver is gone with the server thread
HttpSelectReload ==
  /\ ro.kind = "http"
  /\ ro.wpc = "select"
  /\ srv.rq > 0
  /\ IF RuntimeUp(srv) /\ srv.rt # "ended"
       THEN /\ srv' = [srv EXCEPT !.rq = @ - 1, !.fq = @ + 1]
            /\ ro' = ro
       ELSE /\ srv' = [srv EXCEPT !.rq = @ - 1]
            /\ ro' = WorkerPanic(ro)
  /\ UNCHANGED <<cl, w>>

\* the reload task takes a request: reload.recv_async() returns Ok
WsReloadRecv ==
  /\ RuntimeUp(srv)
  /\ srv.rt = "idle"
  /\ srv.fq > 0
  /\ srv' = [srv EXCEPT !.fq = @ - 1, !.rt = "waiting", !.open = FALSE]
  /\ UNCHANGED <<ro, cl, w>>

\* a readiness wait that reports an open socket whatever happened
wait_until_socket_open_always(connected) == TRUE

\* wait_until_socket_open: true as soon as a TcpStream::connect to the target
\* succeeds, false when none has after PORT_WAIT_TIMEOUT
wait_until_socket_open(connected) == connected

\* the reload task in proxy mode: wait for the target; when the wait failed,
\* `continue` with the next request, without callback or message
WsReloadWait ==
  /\ RuntimeUp(srv)
  /\ srv.rt = "waiting"
  /\ \E connected \in BOOLEAN :
       srv' = [srv EXCEPT !.open = connected,
                          !.rt = IF wait_until_socket_open(connected) THEN "clear" ELSE "idle",
                          !.skipped = IF wait_until_socket_open(connected) THEN @ ELSE @ + 1]
  /\ UNCHANGED <<ro, cl, w>>

\* a clear that drops the first session only
clear_first(sockets) == IF sockets = <<>> THEN <<>> ELSE Tail(sockets)

\* Vec::clear
clear(sockets) == <<>>

\* the set of the elements of a list
Elems(q) == {q[i] : i \in DOMAIN q}

\* the reload task: callback(Event::Reload); sockets.lock().unwrap().clear()
WsReloadClear ==
  /\ RuntimeUp(srv)
  /\ srv.rt = "clear"
  /\ srv' = [srv EXCEPT !.rt = "idle",
                        !.events = @ \union {"Reload"},
                        !.sockets = clear(@),
                        !.cleared = clear(srv.sockets),
                        !.dropped = @ \union (Elems(srv.sockets) \ Elems(clear(srv.sockets))),
                        !.served = @ + 1,
                        !.blind = IF srv.open THEN @ ELSE @ + 1]
  /\ UNCHANGED <<ro, cl, w>>

\* the reload task ends: the Server with the sender is gone (stop consumed
\* it, or the worker ended) and no request is left
WsReloadEnd ==
  /\ RuntimeUp(srv)
  /\ srv.rt = "idle"
  /\ srv.fq = 0
  /\ ro.wpc \in {"wait_done", "sent", "exited", "panicked"}
  /\ srv' = [srv EXCEPT !.rt = "ended"]
  /\ UNCHANGED <<ro, cl, w>>

\* a browser connects to the control endpoint: accept() returns and a task is
\* spawned for the handshake
WsConnect ==
  /\ RuntimeUp(srv)
  /\ srv.ws = "accepting"
  /\ srv.sid < MaxSessions
  /\ srv' = [srv EXCEPT !.sid = @ + 1, !.hs = @ \union {srv.sid + 1}]
  /\ UNCHANGED <<ro, cl, w>>

\* the handshake task: accept_async fails and the connection is dropped, or
\* it succeeds and sockets.lock().unwrap().push(ws)
WsHandshake ==
  /\ RuntimeUp(srv)
  /\ \E s \in srv.hs, ok \in BOOLEAN :
       srv' = [srv EXCEPT !.hs = @ \ {s},
                          !.sockets = IF ok THEN Append(@, s) ELSE @,
                          !.pushed = IF ok THEN @ \union {s} ELSE @]
  /\ UNCHANGED <<ro, cl, w>>

\* the threads and tasks of an Http operation
HttpThreads ==
  \/ HttpWorkerInit
  \/ HttpSelectDone
  \/ HttpSelectCancel
  \/ HttpSelectReload
  \/ HttpStop
  \/ HttpWaitDone
  \/ WorkerExit
  \/ SrvBindMain
  \/ SrvBindControl
  \/ SrvJoin
  \/ WsReloadRecv
  \/ WsReloadWait
  \/ WsReloadClear
  \/ WsReloadEnd
  \/ WsHandshake

\* what the rest of the program and the world do to it
HttpEnvironment ==
  \/ ReloadSignal
  \/ WsConnect
  \/ SrvAcceptError
  \/ ClRecv
  \/ ClCancel
  \/ ClCancelSent
  \/ ClCancelRecv

\* Http::start has returned the RunningOperation to its caller
InitHttp ==
  /\ ro = RunningOperation_start("http", "none")
  /\ srv = NoServer
  /\ cl = [NoCaller EXCEPT !.pc = "held", !.op = "http"]
  /\ w = NoWatch

NextHttp == HttpThreads \/ HttpEnvironment

\* an Http operation with its dev server, from the return of start on
SpecHttp == InitHttp /\ [][NextHttp]_vars

-----------------------------------------------------------------------------
(* Claims about the dev server, checked under SpecHttp.                    *)

\* C26: after a cancel request the Http worker stops the main server and the
\* control endpoint and then emits Cancelled: Cancelled is emitted only with
\* both stopped, and once server.stop() has returned and the worker waits for
\* the server thread, the control endpoint, if it was ever bound, is stopped
\* like the main server, so that the wait ends.
C26_HttpCancelStops ==
  ro.kind = "http" =>
    /\ (ro.out = <<"Cancelled">> => srv.http = "stopped" /\ WsTaskDone(srv))
    /\ (ro.wpc = "wait_done" /\ srv.http = "stopped" /\ srv.ws # "binding" =>
          WsTaskDone(srv))

\* C27: in proxy mode the sessions are dropped for a reload request only
\* after a connection to the proxy target has succeeded since the request
\* was taken up: the reload task is about to clear only with the socket found
\* open, and no clear has happened without.
C27_ReloadAfterTargetOpen ==
  /\ (srv.rt = "clear" => srv.open)
  /\ srv.blind = 0

\* C27, its case: a reload request has been served and has dropped a session.
C27_Witness == srv.served > 0 /\ srv.dropped # {} /\ srv.blind = 0

\* a reload request that was skipped has closed no session and has left the
\* reload task ready for the requests that follow
SkippedHarmless ==
  /\ (srv.dropped # {} => srv.served > 0)
  /\ srv.served + srv.skipped + (IF srv.rt \in {"waiting", "clear"} THEN 1 ELSE 0)
       + srv.fq + srv.rq <= srv.nsig
  /\ (srv.skipped > 0 /\ srv.rt = "idle" /\ srv.fq > 0 /\ RuntimeUp(srv) =>
        ENABLED WsReloadRecv)

\* C28: when the proxy target accepts no connection during the whole wait,
\* the reload request is skipped with a warning; no session is closed for it
\* and later requests are still served.
C28_TimeoutSkipsWithWarning ==
  /\ SkippedHarmless
  /\ (srv.skipped > 0 => "Warning" \in srv.events)

\* C29: a served reload drops every session that is in the list at that
\* moment and leaves the list empty, however the pushes of the accept side
\* fall around it; the sessions in the list are at all times those pushed
\* and not yet dropped, each once.
C29_ClearDropsAll ==
  /\ srv.cleared = <<>>
  /\ Elems(srv.sockets) = srv.pushed \ srv.dropped
  /\ Cardinality(Elems(srv.sockets)) = Len(srv.sockets)

\* C29, its case: a reload has been served with a session in the list and
\* another in its handshake; the first is dropped, the second is in the list.
C29_Witness ==
  /\ srv.served = 1
  /\ srv.dropped = {1}
  /\ srv.sockets = <<2>>

\* ------------------------------------------------------------------------
\* The dev server, script injection (src/http.rs)
\* ------------------------------------------------------------------------

\* the most tokens a served body is made of
MaxTokens == 4

\* the most responses one body passes through (a proxy in front of a proxy)
MaxResponses == 2

\* the byte strings inject_into looks for: b"</body>", b"<!--", b"-->"
Tag ==
  [body  |-> <<"<", "/", "b", "o", "d", "y", ">">>,
   open  |-> <<"<", "!", "-", "-">>,
   close |-> <<"-", "-", ">">>]

\* reload_script: "<script>\n{js}</script>"; "j" is the text of inject.js
\* with the control port filled in
reload_script ==
  <<"<", "s", "c", "r", "i", "p", "t", ">", "\n", "j",
    "<", "/", "s", "c", "r", "i", "p", "t", ">">>

\* rest.starts_with(pat) for rest = &input[i-1..] (i counts from 1)
rest_starts_with(input, i, pat) ==
  /\ i + Len(pat) - 1 <= Len(input)
  /\ SubSeq(input, i, i + Len(pat) - 1) = pat

\* the scan of the alternative that keeps the first tag found
RECURSIVE body_close_idx_first(_, _, _, _)
body_close_idx_first(input, i, found, inside_comment) ==
  IF i > Len(input) THEN found
  ELSE IF ~inside_comment /\ rest_starts_with(input, i, Tag.body)
    THEN body_close_idx_first(input, i + 1, IF found = None THEN Some(i - 1) ELSE found,
                              inside_comment)
  ELSE IF ~inside_comment /\ rest_starts_with(input, i, Tag.open)
    THEN body_close_idx_first(input, i + 1, found, TRUE)
  ELSE IF inside_comment /\ rest_starts_with(input, i, Tag.close)
    THEN body_close_idx_first(input, i + 1, found, FALSE)
  ELSE body_close_idx_first(input, i + 1, found, inside_comment)

\* inject_into, the loop over 0..input.len(): body_close_idx after the bytes
\* from i on have been looked at (an index counting from 0, as in the code)
RECURSIVE body_close_idx(_, _, _, _)
body_close_idx(input, i, found, inside_comment) ==
  IF i > Len(input) THEN found
  ELSE IF ~inside_comment /\ rest_starts_with(input, i, Tag.body)
    THEN body_close_idx(input, i + 1, Some(i - 1), inside_comment)
  ELSE IF ~inside_comment /\ rest_starts_with(input, i, Tag.open)
    THEN body_close_idx(input, i + 1, found, TRUE)
  ELSE IF inside_comment /\ rest_starts_with(input, i, Tag.close)
    THEN body_close_idx(input, i + 1, found, FALSE)
  ELSE body_close_idx(input, i + 1, found, inside_comment)

\* the alternative that writes the script over the byte at the insert index
inject_into_over(input) ==
  LET found == body_close_idx(input, 1, None, FALSE)
      insert_idx == IF found = None THEN Len(input) ELSE found[1]
  IN SubSeq(input, 1, insert_idx) \o reload_script
       \o SubSeq(input, insert_idx + 2, Len(input))

\* inject_into: the script goes in at the index found, or at the very end
inject_into(input) ==
  LET found == body_close_idx(input, 1, None, FALSE)
      insert_idx == IF found = None THEN Len(input) ELSE found[1]
  IN SubSeq(input, 1, insert_idx) \o reload_script
       \o SubSeq(input, insert_idx + 1, Len(input))

\* the bodies an upstream serves: up to MaxTokens of the tags, a text byte
\* and the bytes a tag can be completed or broken with
RECURSIVE Bodies(_)
Bodies(n) ==
  IF n = 0 THEN {<<>>}
  ELSE LET shorter == Bodies(n - 1) IN
       shorter \cup {b \o t : b \in shorter,
                              t \in {Tag.body, Tag.open, Tag.close, <<"x">>, <<"-">>, <<">">>}}

\* rev_proxy, a response of the upstream: a text/html body is buffered and
\* passed through inject_into, any other body is handed on as it is
rev_proxy ==
  /\ cl.pc = "proxy"
  /\ cl.n < MaxResponses
  /\ cl' = [cl EXCEPT !.n = cl.n + 1,
                      !.prev = cl.body,
                      !.body = IF cl.html THEN inject_into(cl.body) ELSE cl.body]
  /\ UNCHANGED <<ro, srv, w>>

InitInject ==
  /\ ro = NoOperation
  /\ srv = NoServer
  /\ w = NoWatch
  /\ \E body \in Bodies(MaxTokens), html \in BOOLEAN :
       cl = [pc |-> "proxy", body |-> body, prev |-> body, html |-> html, n |-> 0]

\* bodies on their way through the proxy
SpecInject == InitInject /\ [][rev_proxy]_vars

\* ------------------------------------------------------------------------
\* Claims about script injection
\* ------------------------------------------------------------------------

\* position i of input lies in a comment: a "<!--" that itself lies in no
\* comment starts before i and no "-->" starts between the two
RECURSIVE InsideComment(_, _)
InsideComment(input, i) ==
  \E j \in 1..(i - 1) :
    /\ rest_starts_with(input, j, Tag.open)
    /\ \A p \in (j + 1)..(i - 1) : ~rest_starts_with(input, p, Tag.close)
    /\ ~InsideComment(input, j)

\* the positions of the "</body>" of input that lie in no comment
BodyCloses(input) ==
  {i \in 1..Len(input) : rest_starts_with(input, i, Tag.body) /\ ~InsideComment(input, i)}

\* a html body has passed through the proxy
Injected == cl.pc = "proxy" /\ cl.n >= 1 /\ cl.html

\* C31: the script is inserted just before the last "</body>" that lies in
\* no comment (comments being one toggle between "<!--" and "-->", without
\* nesting), and at the end of the body when there is no such "</body>".
C31_BeforeLastBodyClose ==
  Injected =>
    LET input == cl.prev
        closes == BodyCloses(input)
        k == IF closes = {} THEN Len(input)
             ELSE (CHOOSE i \in closes : \A o \in closes : o <= i) - 1
    IN cl.body = SubSeq(input, 1, k) \o reload_script \o SubSeq(input, k + 1, Len(input))

\* two "</body>" and then one in a comment: the script is before the second
C31_Witness ==
  /\ Injected
  /\ cl.n = 1
  /\ cl.prev = Tag.body \o Tag.body \o Tag.open \o Tag.body
  /\ cl.body = Tag.body \o reload_script \o Tag.body \o Tag.open \o Tag.body

\* C32: injection is idempotent, a body injected twice is the body injected
\* once, with one copy of the script.
C32_InjectIdempotent ==
  (Injected /\ cl.n >= 2) => cl.body = cl.prev

\* C40: the body that leaves is the body that came with the script put in at
\* one index k, 0 <= k <= len: no byte of the original is changed or lost.
C40_BytesKept ==
  Injected =>
    \E k \in 0..Len(cl.prev) :
      cl.body = SubSeq(cl.prev, 1, k) \o reload_script \o SubSeq(cl.prev, k + 1, Len(cl.prev))

\* a body with text after its "</body>": the script is in the middle
C40_Witness ==
  /\ Injected
  /\ cl.prev = <<"x">> \o Tag.body \o <<"x">>
  /\ cl.body = <<"x">> \o reload_script \o Tag.body \o <<"x">>

\* ------------------------------------------------------------------------
\* The command of a configuration (src/op/command.rs, ProgramAndArgs)
\* ------------------------------------------------------------------------

\* the most characters of a command string or of a fragment
MaxChars == 4

\* the most fragments of a command given as a list
MaxFragments == 2

\* the strings of up to n characters; " " stands for the characters that
\* char::is_whitespace accepts, "a" for all others
RECURSIVE Strings(_)
Strings(n) ==
  IF n = 0 THEN {<<>>}
  ELSE Strings(n - 1) \cup {s \o <<c>> : s \in Strings(n - 1), c \in {"a", " "}}

\* str::split_whitespace: the maximal runs of characters that are no
\* whitespace, in order
RECURSIVE split_whitespace(_)
split_whitespace(s) ==
  IF s = <<>> THEN <<>>
  ELSE IF s[1] = " " THEN split_whitespace(Tail(s))
  ELSE LET n == CHOOSE n \in 1..Len(s) :
                  /\ \A i \in 1..n : s[i] # " "
                  /\ n = Len(s) \/ s[n + 1] = " "
       IN <<SubSeq(s, 1, n)>> \o split_whitespace(SubSeq(s, n + 1, Len(s)))

\* the alternative that lets every fragment of a list pass
try_from_lenient(src) ==
  LET blank(s) == \A i \in 1..Len(s) : s[i] = " "
      split == split_whitespace(src.s)
  IN IF src.form = "Simple"
     THEN IF blank(src.s)
          THEN [err |-> "command string is empty", program |-> <<>>, args |-> <<>>]
          ELSE [err |-> "", program |-> Head(split), args |-> Tail(split)]
     ELSE IF src.v = <<>>
          THEN [err |-> "empty list as command specification", program |-> <<>>, args |-> <<>>]
          ELSE [err |-> "", program |-> src.v[1], args |-> Tail(src.v)]

\* ProgramAndArgs::try_from; err = "" is Ok(Self { program, args }), and
\* blank(s) is s.is_empty() || s.chars().all(|c| c.is_whitespace())
try_from(src) ==
  LET blank(s) == \A i \in 1..Len(s) : s[i] = " "
      split == split_whitespace(src.s)
  IN IF src.form = "Simple"
     THEN IF blank(src.s)
          THEN [err |-> "command string is empty", program |-> <<>>, args |-> <<>>]
          ELSE [err |-> "", program |-> Head(split), args |-> Tail(split)]
     ELSE IF src.v = <<>>
          THEN [err |-> "empty list as command specification", program |-> <<>>, args |-> <<>>]
          ELSE IF \E i \in 1..Len(src.v) : blank(src.v[i])
          THEN [err |-> "empty fragment in command specification", program |-> <<>>,
                args |-> <<>>]
          ELSE [err |-> "", program |-> src.v[1], args |-> Tail(src.v)]

\* serde reads a command (try_from = "RawProgramAndArgs"): the raw form is
\* converted, and an error of the conversion is an error of the read
ProgramAndArgs_deserialize ==
  /\ cl.pc = "raw"
  /\ cl' = [cl EXCEPT !.pc = "read", !.res = try_from(cl.src)]
  /\ UNCHANGED <<ro, srv, w>>

\* RawProgramAndArgs: Simple(String) or Explicit(Vec<String>)
InitCommand ==
  /\ ro = NoOperation
  /\ srv = NoServer
  /\ w = NoWatch
  /\ \E src \in {[form |-> "Simple", s |-> s, v |-> <<>>] : s \in Strings(MaxChars)}
          \cup {[form |-> "Explicit", s |-> <<>>, v |-> v] :
                  v \in UNION {[1..n -> Strings(MaxChars)] : n \in 0..MaxFragments}} :
       cl = [pc |-> "raw", src |-> src, res |-> [err |-> "", program |-> <<>>, args |-> <<>>]]

\* commands on their way through deserialization
SpecCommand == InitCommand /\ [][ProgramAndArgs_deserialize]_vars

\* ------------------------------------------------------------------------
\* Claims about the command of a configuration
\* ------------------------------------------------------------------------

\* s is empty or only whitespace
Blank(s) == \A i \in 1..Len(s) : s[i] = " "

\* the strings of a list, one after the other
RECURSIVE Concat(_)
Concat(list) == IF list = <<>> THEN <<>> ELSE Head(list) \o Concat(Tail(list))

\* s without its whitespace
RECURSIVE Solid(_)
Solid(s) ==
  IF s = <<>> THEN <<>>
  ELSE IF s[1] = " " THEN Solid(Tail(s)) ELSE <<s[1]>> \o Solid(Tail(s))

\* C33: an empty command is an error of the read: a command string that is
\* empty or only whitespace, an empty list, and a list with an empty or
\* whitespace-only fragment. Every other command is accepted with a non-empty
\* program (the first token of the string, the first element of the list) and
\* the remaining tokens or elements as arguments.
C33_EmptyCommandRejected ==
  cl.pc = "read" =>
    LET src == cl.src
        res == cl.res
        tokens == <<res.program>> \o res.args
    IN IF src.form = "Simple"
       THEN IF Blank(src.s) THEN res.err # ""
            ELSE /\ res.err = ""
                 /\ \A t \in 1..Len(tokens) : tokens[t] # <<>> /\ Solid(tokens[t]) = tokens[t]
                 /\ Concat(tokens) = Solid(src.s)
                 /\ Len(tokens) = Cardinality({i \in 1..Len(src.s) :
                                     src.s[i] # " " /\ (i = 1 \/ src.s[i - 1] = " ")})
       ELSE IF src.v = <<>> \/ \E i \in 1..Len(src.v) : Blank(src.v[i]) THEN res.err # ""
            ELSE /\ res.err = ""
                 /\ res.program = src.v[1]
                 /\ res.program # <<>>
                 /\ res.args = Tail(src.v)

\* a list whose second fragment is one blank has been rejected
C33_Witness ==
  /\ cl.pc = "read"
  /\ cl.src.form = "Explicit"
  /\ cl.src.v = << <<"a">>, <<" ">> >>
  /\ cl.res.err = "empty fragment in command specification"

\* ------------------------------------------------------------------------
\* Claims about the states of the Watch executor, checked under SpecWatch
\* ------------------------------------------------------------------------

\* the executor is inside run_operations
InRun(wr) == wr.pc \in {"StartOp", "RtStart", "RtWait", "Poll", "CancelSend", "CancelRecv"}

\* the state of the worker in the words of the state table
WatchState(wr) ==
  IF wr.pc = "Initial" THEN "Run{startup}"
  ELSE IF wr.pc = "RunOnChange" THEN "Run{change}"
  ELSE IF InRun(wr) THEN (IF wr.tbc THEN "Run{change}" ELSE "Run{startup}")
  ELSE wr.pc

C35_WatcherOutlivesExecutor == ~(~w.watcher /\ ~ExecutorGone(w))

\* C39: once cancel has been called on a Watch, the executor starts no
\* operation of the run list any more; a cancel that comes while it is in
\* Debouncing or WaitingForChange does not let it go on to Run{change}.
C39_NoStartAfterCancel ==
  [][w.cn # "idle" =>
       /\ ~(w.pc = "Debouncing" /\ w'.pc = "RunOnChange")
       /\ ~(w.pc \in {"StartOp", "RtStart"} /\ ro' # ro)]_vars

\* ------------------------------------------------------------------------
\* Tasks that run tasks (src/op/run_task.rs, src/main.rs)
\* ------------------------------------------------------------------------

\* the most operations of a task
MaxTaskOps == 2

\* the most calls of Task::run that are followed, one inside the other
MaxDepth == 3

\* Config.tasks: the tasks "default" and "b", each a list of commands and of
\* run-tasks that name "default", "b" or the task "missing"
TaskConfigs ==
  LET ops == {Op("command", "", <<>>)}
               \union {Op("run-task", t, <<>>) : t \in {"default", "b", "missing"}}
      lists == UNION {[1..n -> ops] : n \in 1..MaxTaskOps}
  IN {[default |-> d, b |-> b] : d, b \in lists}

\* a Task::run that leaves out the run-tasks of a task
Task_run_flat(c) ==
  LET top == Last(c.stack)
      ops == c.tasks[top.task]
      up == SubSeq(c.stack, 1, Len(c.stack) - 1)
      next == [c EXCEPT !.stack = Append(up, [top EXCEPT !.i = @ + 1])]
  IN IF top.i > Len(ops)
       THEN IF up = <<>> THEN {[c EXCEPT !.pc = "done", !.out = "Success", !.stack = <<>>]}
            ELSE {[c EXCEPT !.stack = Append(SubSeq(up, 1, Len(up) - 1),
                                             [Last(up) EXCEPT !.i = @ + 1])]}
     ELSE IF ops[top.i].kind = "run-task" THEN {next}
     ELSE {next} \union {[c EXCEPT !.pc = "done", !.out = v, !.stack = <<>>] :
                           v \in {"Failure", Err}}

\* Task::run, one step of the innermost run (top of the stack of calls):
\*   past the last operation  return Success: the run-task that called is
\*                            Finished(Success) and its task goes on
\*   run-task                 RunTask::start calls Task::run of the task named
\*   command                  Success and the next operation; or an outcome
\*                            that is not Success or an error, which every
\*                            Task::run on the stack hands to its caller
Task_run(c) ==
  LET top == Last(c.stack)
      ops == c.tasks[top.task]
      up == SubSeq(c.stack, 1, Len(c.stack) - 1)
      next == [c EXCEPT !.stack = Append(up, [top EXCEPT !.i = @ + 1])]
  IN IF top.i > Len(ops)
       THEN IF up = <<>> THEN {[c EXCEPT !.pc = "done", !.out = "Success", !.stack = <<>>]}
            ELSE {[c EXCEPT !.stack = Append(SubSeq(up, 1, Len(up) - 1),
                                             [Last(up) EXCEPT !.i = @ + 1])]}
     ELSE IF ops[top.i].kind = "run-task"
       THEN {[c EXCEPT !.stack = Append(@, [task |-> ops[top.i].task, i |-> 1])]}
     ELSE {next} \union {[c EXCEPT !.pc = "done", !.out = v, !.stack = <<>>] :
                           v \in {"Failure", Err}}

\* main: task.run(&ctx) of the task "default"
Main_run_default ==
  /\ cl.pc = "loaded"
  /\ cl' = [cl EXCEPT !.pc = "run", !.stack = <<[task |-> "default", i |-> 1]>>]
  /\ UNCHANGED <<ro, srv, w>>

\* the thread of main inside Task::run, followed down to MaxDepth calls
Task_run_step ==
  /\ cl.pc = "run"
  /\ cl' \in Task_run(cl)
  /\ Len(cl'.stack) <= MaxDepth
  /\ UNCHANGED <<ro, srv, w>>

InitTask ==
  /\ ro = NoOperation
  /\ srv = NoServer
  /\ w = NoWatch
  /\ \E tasks \in TaskConfigs :
       cl = [pc |-> "load", tasks |-> tasks, stack |-> <<>>, out |-> "none"]

NextTask == Config_load \/ Main_run_default \/ Task_run_step

\* main from the load of the configuration to the end of the default task
SpecTask == InitTask /\ [][NextTask]_vars

\* ------------------------------------------------------------------------
\* Claims about tasks that run tasks
\* ------------------------------------------------------------------------

\* the tasks named by the run-tasks of task t
Names(tasks, t) ==
  {tasks[t][i].task : i \in {j \in 1..Len(tasks[t]) : tasks[t][j].kind = "run-task"}}

\* the tasks that are run, through any number of run-tasks, when t is run
RECURSIVE Reached(_, _, _)
Reached(tasks, from, n) ==
  IF n = 0 THEN from
  ELSE Reached(tasks, from \union UNION {Names(tasks, t) : t \in from \intersect DOMAIN tasks},
               n - 1)

\* the default task holds a run-task that names it, directly or through a
\* cycle of tasks, and every run-task of the configuration names a task
Recursive(tasks) ==
  /\ "default" \in Reached(tasks, Names(tasks, "default"), Cardinality(DOMAIN tasks))
  /\ \A t \in DOMAIN tasks : Names(tasks, t) \subseteq DOMAIN tasks

\* C37: a task with a run-task that names the same task, directly or
\* through a cycle of tasks, passes validation, and its run never ends.
C37_RecursionNeverEnds ==
  Recursive(cl.tasks) => cl.pc \notin {"config_err", "done"}

\* such a task passes validation, and its run never ends with Success: it
\* ends only with the failure or the error of an operation that is reached
\* before the run-task
C37_RecursionNeverSucceeds ==
  Recursive(cl.tasks) =>
    /\ cl.pc # "config_err"
    /\ cl.pc = "done" => cl.out \in {"Failure", Err}

\* default runs b and b runs default: the run is as deep as it is followed
C37_Witness ==
  /\ cl.pc = "run"
  /\ cl.tasks.default = <<Op("command", "", <<>>), Op("run-task", "b", <<>>)>>
  /\ cl.tasks.b = <<Op("run-task", "default", <<>>)>>
  /\ Len(cl.stack) = MaxDepth
  /\ cl.stack[1].task = "default"
  /\ cl.stack[2].task = "b"
  /\ cl.stack[3].task = "default"

\* ------------------------------------------------------------------------
\* Claims about errors inside a worker, checked under SpecOp
\* ------------------------------------------------------------------------

\* C36: an error raised inside the worker of an operation, such as the dev
\* server failing to bind, is put on the outcome channel as an error and
\* reaches the parent that waits for the outcome: the worker does not end
\* without it, and the parent does not find the channel without a value.
C36_WorkerErrorDelivered ==
  ro.kind = "http" /\ (srv.http = "panicked" \/ srv.ws = "err") =>
    /\ ro.wpc # "panicked"
    /\ ro.wpc = "exited" => ro.emitted = 1
    /\ cl.got = RecvError => ro.emitted = 1

\* ------------------------------------------------------------------------
\* Claims about a Reloader that outlives its worker, checked under SpecReload
\* ------------------------------------------------------------------------

\* C38: whenever Reload::start finds a Reloader in scope, the send succeeds:
\* the Http worker that holds the receiver of that Reloader's channel has not
\* ended before the send.
C38_ReloaderAlive ==
  cl.last.op = "reload" =>
    LET reloader == Nearest(cl.last.before, cl.last.ctx, "Reloader") IN
      reloader # None => cl.last.chansBefore[reloader[1]].rx /\ cl.last.res # "panic"

====
